---------------------------- MODULE Spec2Model ----------------------------
(***************************************************************************)
(* A model of github.com/syntaqx/env: the process environment with Set,    *)
(* Unset and Lookup (env.go), and Unmarshal, which populates the fields of *)
(* a struct from the environment according to their `env` tags             *)
(* (unmarshal.go, helpers.go).                                             *)
(*                                                                         *)
(* Go strings are sequences of one-character strings, so that tag parsing, *)
(* key building, placeholder expansion and number parsing are computed     *)
(* character by character as the code computes them.                       *)
(***************************************************************************)
EXTENDS Integers, Sequences, FiniteSets, TLC

VARIABLES env, typ, cfg, pre, err, last, trail, calls, args, ret, recent, run

vars == <<env, typ, cfg, pre, err, last, trail, calls, args, ret, recent, run>>

-----------------------------------------------------------------------------
(* The functions of package strings that the code calls. *)

Min(S) == CHOOSE x \in S : \A y \in S : x <= y

\* strings.HasPrefix(s[i-1:], p), with i counted from 1
HasPrefixAt(s, i, p) ==
    /\ i >= 1
    /\ i + Len(p) - 1 <= Len(s)
    /\ SubSeq(s, i, i + Len(p) - 1) = p

\* strings.Index(s, p) + 1 for a non-empty p; 0 when p does not occur
Index(s, p) ==
    LET I == {i \in 1..Len(s) : HasPrefixAt(s, i, p)}
    IN  IF I = {} THEN 0 ELSE Min(I)

\* strings.Contains(s, p) for a non-empty p
Contains(s, p) == Index(s, p) # 0

\* strings.Split(s, sep) for a one-character sep: never empty, Split("") = [""]
RECURSIVE Split(_, _)
Split(s, sep) ==
    LET i == Index(s, sep)
    IN  IF i = 0 THEN <<s>>
        ELSE <<SubSeq(s, 1, i - 1)>> \o Split(SubSeq(s, i + 1, Len(s)), sep)

\* strings.SplitN(s, sep, 2) for a one-character sep
SplitN2(s, sep) ==
    LET i == Index(s, sep)
    IN  IF i = 0 THEN <<s>>
        ELSE <<SubSeq(s, 1, i - 1), SubSeq(s, i + 1, Len(s))>>

\* strings.Replace(s, old, new, -1) for a non-empty old: the non-overlapping
\* occurrences of old, found from the left, each become new
RECURSIVE Replace(_, _, _)
Replace(s, old, new) ==
    IF Len(s) < Len(old) THEN s
    ELSE IF HasPrefixAt(s, 1, old)
         THEN new \o Replace(SubSeq(s, Len(old) + 1, Len(s)), old, new)
         ELSE <<Head(s)>> \o Replace(Tail(s), old, new)

\* the white space strings.TrimSpace removes (ASCII part)
Space == {" ", "\t", "\n", "\r"}

RECURSIVE TrimLeft(_)
TrimLeft(s) ==
    IF s # <<>> /\ Head(s) \in Space THEN TrimLeft(Tail(s)) ELSE s

RECURSIVE TrimRight(_)
TrimRight(s) ==
    IF s # <<>> /\ s[Len(s)] \in Space
    THEN TrimRight(SubSeq(s, 1, Len(s) - 1)) ELSE s

TrimSpace(s) == TrimRight(TrimLeft(s))

UpperLetters ==
    <<"A", "B", "C", "D", "E", "F", "G", "H", "I", "J", "K", "L", "M",
      "N", "O", "P", "Q", "R", "S", "T", "U", "V", "W", "X", "Y", "Z">>

LowerLetters ==
    <<"a", "b", "c", "d", "e", "f", "g", "h", "i", "j", "k", "l", "m",
      "n", "o", "p", "q", "r", "s", "t", "u", "v", "w", "x", "y", "z">>

Digits == <<"0", "1", "2", "3", "4", "5", "6", "7", "8", "9">>

Range(f) == {f[i] : i \in DOMAIN f}

LowerChar(c) ==
    IF c \in Range(UpperLetters)
    THEN LowerLetters[CHOOSE i \in DOMAIN UpperLetters : UpperLetters[i] = c]
    ELSE c

\* strings.ToLower
ToLower(s) == [i \in DOMAIN s |-> LowerChar(s[i])]

-----------------------------------------------------------------------------
(* Tag parsing: unmarshal.go, parseTag and parsePart. *)

\* "default=", "fallback=", "default=[", "fallback=["
DefaultEq == <<"d", "e", "f", "a", "u", "l", "t", "=">>
FallbackEq == <<"f", "a", "l", "l", "b", "a", "c", "k", "=">>
DefaultBr == DefaultEq \o <<"[">>
FallbackBr == FallbackEq \o <<"[">>
\* "required", "file", "expand"
RequiredWord == <<"r", "e", "q", "u", "i", "r", "e", "d">>
FileWord == <<"f", "i", "l", "e">>
ExpandWord == <<"e", "x", "p", "a", "n", "d">>

\* regexp (?:default|fallback)=\[(.*?)] : FindStringSubmatch(part)[1], as
\* [ok, group]. The leftmost start that has a closing bracket after it on the
\* same line; the group ends before the first closing bracket.
bracketMatch(part) ==
    LET after(i) == IF HasPrefixAt(part, i, DefaultBr) THEN i + Len(DefaultBr)
                    ELSE IF HasPrefixAt(part, i, FallbackBr) THEN i + Len(FallbackBr)
                    ELSE 0
        closes(i) == {j \in after(i)..Len(part) :
                        /\ part[j] = "]"
                        /\ \A k \in after(i)..(j - 1) : part[k] # "\n"}
        starts == {i \in 1..Len(part) : after(i) # 0 /\ closes(i) # {}}
    IN  IF starts = {} THEN [ok |-> FALSE, group |-> <<>>]
        ELSE LET i == Min(starts)
             IN  [ok |-> TRUE, group |-> SubSeq(part, after(i), Min(closes(i)) - 1)]

\* regexp (?:default|fallback)=([^,]+) : FindStringSubmatch(part)[1], as
\* [ok, group]. The leftmost start followed by at least one character that is
\* no comma; the group is the longest run of such characters.
plainMatch(part) ==
    LET after(i) == IF HasPrefixAt(part, i, DefaultEq) THEN i + Len(DefaultEq)
                    ELSE IF HasPrefixAt(part, i, FallbackEq) THEN i + Len(FallbackEq)
                    ELSE 0
        starts == {i \in 1..Len(part) :
                     /\ after(i) # 0
                     /\ after(i) <= Len(part)
                     /\ part[after(i)] # ","}
    IN  IF starts = {} THEN [ok |-> FALSE, group |-> <<>>]
        ELSE LET a == after(Min(starts))
                 stop == {j \in a..Len(part) : part[j] = ","}
                 end == IF stop = {} THEN Len(part) ELSE Min(stop) - 1
             IN  [ok |-> TRUE, group |-> SubSeq(part, a, end)]

\* parsePart: o holds *fallbackValue, *required, *file, *expand
parsePartDefaultOnly(part, o) ==
    IF Contains(part, DefaultBr)
    THEN LET m == bracketMatch(part)
         IN  IF m.ok THEN [o EXCEPT !.fallback = m.group] ELSE o
    ELSE IF Contains(part, DefaultEq)
    THEN LET m == plainMatch(part)
         IN  IF m.ok THEN [o EXCEPT !.fallback = m.group] ELSE o
    ELSE IF TrimSpace(part) = RequiredWord THEN [o EXCEPT !.required = TRUE]
    ELSE IF TrimSpace(part) = FileWord THEN [o EXCEPT !.file = TRUE]
    ELSE IF TrimSpace(part) = ExpandWord THEN [o EXCEPT !.expand = TRUE]
    ELSE o

parsePart(part, o) ==
    IF Contains(part, DefaultBr) \/ Contains(part, FallbackBr)
    THEN LET m == bracketMatch(part)
         IN  IF m.ok THEN [o EXCEPT !.fallback = m.group] ELSE o
    ELSE IF Contains(part, DefaultEq) \/ Contains(part, FallbackEq)
    THEN LET m == plainMatch(part)
         IN  IF m.ok THEN [o EXCEPT !.fallback = m.group] ELSE o
    ELSE IF TrimSpace(part) = RequiredWord THEN [o EXCEPT !.required = TRUE]
    ELSE IF TrimSpace(part) = FileWord THEN [o EXCEPT !.file = TRUE]
    ELSE IF TrimSpace(part) = ExpandWord THEN [o EXCEPT !.expand = TRUE]
    ELSE o

\* the loop of parseTag over extraParts, from index i (counted from 1) with
\* the loop's start and inBrackets, followed by the final parsePart
RECURSIVE parseExtra(_, _, _, _, _)
parseExtra(extraParts, i, start, inBrackets, o) ==
    IF i > Len(extraParts)
    THEN parsePart(SubSeq(extraParts, start, Len(extraParts)), o)
    ELSE LET c == extraParts[i]
         IN  IF c = "[" THEN parseExtra(extraParts, i + 1, start, TRUE, o)
             ELSE IF c = "]" THEN parseExtra(extraParts, i + 1, start, FALSE, o)
             ELSE IF c = "," /\ ~inBrackets
             THEN parseExtra(extraParts, i + 1, i + 1, inBrackets,
                             parsePart(SubSeq(extraParts, start, i - 1), o))
             ELSE parseExtra(extraParts, i + 1, start, inBrackets, o)

\* a parseTag that drops the empty keys
parseTagSkipEmpty(tag) ==
    LET parts == SplitN2(tag, <<",">>)
        o0 == [fallback |-> <<>>, required |-> FALSE, file |-> FALSE, expand |-> FALSE]
        o == IF Len(parts) > 1 THEN parseExtra(parts[2], 1, 1, FALSE, o0) ELSE o0
    IN  [keys |-> SelectSeq(Split(parts[1], <<"|">>), LAMBDA k : k # <<>>),
         fallback |-> o.fallback,
         required |-> o.required,
         file |-> o.file,
         expand |-> o.expand]

\* parseTag: the tagOptions of a tag
parseTag(tag) ==
    LET parts == SplitN2(tag, <<",">>)
        o0 == [fallback |-> <<>>, required |-> FALSE, file |-> FALSE, expand |-> FALSE]
        o == IF Len(parts) > 1 THEN parseExtra(parts[2], 1, 1, FALSE, o0) ELSE o0
    IN  [keys |-> Split(parts[1], <<"|">>),
         fallback |-> o.fallback,
         required |-> o.required,
         file |-> o.file,
         expand |-> o.expand]

-----------------------------------------------------------------------------
(* The environment: env.go, Set, Unset and Lookup over os.Setenv,           *)
(* os.Unsetenv and os.LookupEnv. An environment e is a function from the    *)
(* keys that are present to their values.                                   *)

\* Lookup(key) in environment e: the value and whether the key is present
Lookup(e, key) ==
    IF key \in DOMAIN e THEN [val |-> e[key], ok |-> TRUE]
    ELSE [val |-> <<>>, ok |-> FALSE]

\* the environment after Set(key, value)
SetEnv(e, key, value) ==
    [k \in DOMAIN e \cup {key} |-> IF k = key THEN value ELSE e[k]]

\* an Unset that clears the whole environment, as os.Clearenv does
UnsetEnvAll(e, key) == [k \in {} |-> <<>>]

\* the environment after Unset(key)
UnsetEnv(e, key) == [k \in DOMAIN e \ {key} |-> e[k]]

-----------------------------------------------------------------------------
(* Errors. A Go error is modelled by its kind and the text it carries.      *)

NoErr == [kind |-> "nil", arg |-> <<>>]

\* fmt.Errorf("required environment variable %s is not set", key)
RequiredErr(key) == [kind |-> "required environment variable is not set", arg |-> key]

\* the *PathError of os.ReadFile: "open <path>: ..."
OpenErr(path) == [kind |-> "open", arg |-> path]

\* fmt.Errorf("invalid boolean value %s", value)
BoolErr(value) == [kind |-> "invalid boolean value", arg |-> value]

\* the *NumError of strconv with Err = ErrSyntax: its Func and its Num
NumErr(func, value) == [kind |-> func, arg |-> value]

\* fmt.Errorf("unsupported kind %s", kind), and the one for slice elements
KindErr(name) == [kind |-> "unsupported kind", arg |-> name]
ElemKindErr(name) == [kind |-> "unsupported slice element kind", arg |-> name]

-----------------------------------------------------------------------------
(* The files that file-tagged fields read: os.ReadFile.                     *)

\* "/f", a readable file, and its content "s3"
PathF == <<"/", "f">>
ContentF == <<"s", "3">>

\* the readable files and their contents; every other path fails to open
Files == [p \in {PathF} |-> ContentF]

\* readFileContent
readFileContent(filePath) ==
    IF filePath \in DOMAIN Files
    THEN [content |-> Files[filePath], err |-> NoErr]
    ELSE [content |-> <<>>, err |-> OpenErr(filePath)]

-----------------------------------------------------------------------------
(* Parsing of numbers and booleans: strconv and helpers.go.                 *)

IsDigit(c) == c \in Range(Digits)

DigitVal(c) == (CHOOSE i \in DOMAIN Digits : Digits[i] = c) - 1

\* the value of a sequence of decimal digits
RECURSIVE DecVal(_)
DecVal(ds) ==
    IF ds = <<>> THEN 0
    ELSE 10 * DecVal(SubSeq(ds, 1, Len(ds) - 1)) + DigitVal(ds[Len(ds)])

AllDigits(s) == s # <<>> /\ \A i \in DOMAIN s : IsDigit(s[i])

\* a ParseInt that reads the digits and drops the sign
ParseIntUnsigned(func, s) ==
    LET signed == s # <<>> /\ Head(s) \in {"+", "-"}
        body == IF signed THEN Tail(s) ELSE s
    IN  IF AllDigits(body) THEN [n |-> DecVal(body), err |-> NoErr]
        ELSE [n |-> 0, err |-> NumErr(func, s)]

\* strconv.ParseInt(s, 10, 64) and strconv.Atoi(s): an optional sign and
\* decimal digits. The values of the model are short, so that the 64-bit
\* range error is never met.
ParseInt(func, s) ==
    LET signed == s # <<>> /\ Head(s) \in {"+", "-"}
        body == IF signed THEN Tail(s) ELSE s
    IN  IF AllDigits(body)
        THEN [n |-> IF signed /\ Head(s) = "-" THEN 0 - DecVal(body) ELSE DecVal(body),
              err |-> NoErr]
        ELSE [n |-> 0, err |-> NumErr(func, s)]

\* strconv.ParseUint(s, 10, 64): decimal digits, no sign
ParseUint(s) ==
    IF AllDigits(s) THEN [n |-> DecVal(s), err |-> NoErr]
    ELSE [n |-> 0, err |-> NumErr("strconv.ParseUint", s)]

\* a float is kept as mantissa m and number e of decimal places, m / 10^e,
\* without trailing zero places
RECURSIVE NormFloat(_, _)
NormFloat(m, e) ==
    IF e > 0 /\ m % 10 = 0 THEN NormFloat(m \div 10, e - 1) ELSE [m |-> m, e |-> e]

\* strconv.ParseFloat(s, 64) on decimal notation: an optional sign, digits
\* and at most one point, with a digit on at least one side of it. The values
\* of the model use no exponent, hexadecimal, infinity or NaN notation.
ParseFloat(s) ==
    LET signed == s # <<>> /\ Head(s) \in {"+", "-"}
        body == IF signed THEN Tail(s) ELSE s
        dot == Index(body, <<".">>)
        ip == IF dot = 0 THEN body ELSE SubSeq(body, 1, dot - 1)
        fp == IF dot = 0 THEN <<>> ELSE SubSeq(body, dot + 1, Len(body))
        ok == /\ \A i \in DOMAIN ip : IsDigit(ip[i])
              /\ \A i \in DOMAIN fp : IsDigit(fp[i])
              /\ Len(ip) + Len(fp) > 0
        m == DecVal(ip \o fp)
    IN  IF ok
        THEN [x |-> NormFloat(IF signed /\ Head(s) = "-" THEN 0 - m ELSE m, Len(fp)),
              err |-> NoErr]
        ELSE [x |-> [m |-> 0, e |-> 0], err |-> NumErr("strconv.ParseFloat", s)]

\* a parseBool that compares the value as it is written
parseBoolExact(value) ==
    IF value \in {<<"t", "r", "u", "e">>, <<"1">>, <<"y", "e", "s">>}
    THEN [b |-> TRUE, err |-> NoErr]
    ELSE IF value \in {<<"f", "a", "l", "s", "e">>, <<"0">>, <<"n", "o">>}
    THEN [b |-> FALSE, err |-> NoErr]
    ELSE [b |-> FALSE, err |-> BoolErr(value)]

\* helpers.go, parseBool
parseBool(value) ==
    LET l == ToLower(value)
    IN  IF l \in {<<"t", "r", "u", "e">>, <<"1">>, <<"y", "e", "s">>}
        THEN [b |-> TRUE, err |-> NoErr]
        ELSE IF l \in {<<"f", "a", "l", "s", "e">>, <<"0">>, <<"n", "o">>}
        THEN [b |-> FALSE, err |-> NoErr]
        ELSE [b |-> FALSE, err |-> BoolErr(value)]

RECURSIVE parseParts(_, _, _, _)
\* the body of the loops of parseBoolSlice, parseIntSlice, parseUintSlice and
\* parseFloatSlice: one part v parsed as an element of the kind, as [val, err]
parsePartOf(kind, v) ==
    CASE kind = "bool"  -> [val |-> parseBool(v).b, err |-> parseBool(v).err]
      [] kind = "int"   -> [val |-> ParseInt("strconv.Atoi", v).n,
                            err |-> ParseInt("strconv.Atoi", v).err]
      [] kind = "uint"  -> [val |-> ParseUint(v).n, err |-> ParseUint(v).err]
      [] OTHER          -> [val |-> ParseFloat(v).x, err |-> ParseFloat(v).err]

\* a loop that leaves a malformed part out and goes on
parsePartsAtSkip(values, kind, i, result, r) ==
    parseParts(values, kind, i + 1,
               IF r.err # NoErr THEN result ELSE Append(result, r.val))

\* the loop of the four functions over the parts of the value: the first
\* error ends the loop and the result is nil
parsePartsAt(values, kind, i, result, r) ==
    IF r.err # NoErr THEN [val |-> <<>>, err |-> r.err]
    ELSE parseParts(values, kind, i + 1, Append(result, r.val))

parseParts(values, kind, i, result) ==
    IF i > Len(values) THEN [val |-> result, err |-> NoErr]
    ELSE parsePartsAt(values, kind, i, result, parsePartOf(kind, values[i]))

parseBoolSlice(value) == parseParts(Split(value, <<",">>), "bool", 1, <<>>)

parseIntSlice(value) == parseParts(Split(value, <<",">>), "int", 1, <<>>)

parseUintSlice(value) == parseParts(Split(value, <<",">>), "uint", 1, <<>>)

parseFloatSlice(value) == parseParts(Split(value, <<",">>), "float64", 1, <<>>)

-----------------------------------------------------------------------------
(* The struct types that Unmarshal is called on. A type is the sequence of  *)
(* its fields in declaration order; a field has a name, a kind              *)
(* (reflect.Kind), for a struct its type and for a slice its element kind   *)
(* (of), and its `env` tag.                                                 *)

Field(name, kind, of, tag) == [name |-> name, kind |-> kind, of |-> of, tag |-> tag]

\* the keys and values that occur in the tags and in the environment
HOST == <<"H", "O", "S", "T">>
ADDR == <<"A", "D", "D", "R">>
PORT == <<"P", "O", "R", "T">>
NAME == <<"N", "A", "M", "E">>
ALIAS == <<"A", "L", "I", "A", "S">>
MODE == <<"M", "O", "D", "E">>
KEY == <<"K", "E", "Y">>
VAL == <<"V", "A", "L">>
P_PORT == <<"P", "_", "P", "O", "R", "T">>
D_R_PORT == <<"D", "_", "R", "_", "P", "O", "R", "T">>

\* type Config struct {
\*     Host string `env:"HOST|ADDR,default=localhost"`
\*     Port int    `env:"PORT"`
\* }
ConfigType ==
    << Field("Host", "string", "", <<"H", "O", "S", "T", "|", "A", "D", "D", "R", ",", "d", "e", "f", "a", "u", "l", "t", "=", "l", "o", "c", "a", "l", "h", "o", "s", "t">>),
       Field("Port", "int", "", <<"P", "O", "R", "T">>) >>

\* type Kinds struct {          one key for a field of every kind
\*     S string    `env:"VAL"`
\*     B bool      `env:"VAL"`
\*     I int       `env:"VAL"`
\*     I8 int8     `env:"VAL"`
\*     U uint      `env:"VAL"`
\*     F float64   `env:"VAL"`
\*     L []string  `env:"VAL"`
\*     N []int     `env:"VAL"`
\*     C complex64 `env:"VAL"`
\* }
KindsType ==
    << Field("S", "string", "", VAL),
       Field("B", "bool", "", VAL),
       Field("I", "int", "", VAL),
       Field("I8", "int8", "", VAL),
       Field("U", "uint", "", VAL),
       Field("F", "float64", "", VAL),
       Field("L", "slice", "string", VAL),
       Field("N", "slice", "int", VAL),
       Field("C", "complex64", "", VAL) >>

\* type RequiredConfig struct {
\*     Name string `env:"NAME|ALIAS,required"`
\*     Mode string `env:"MODE,default=dev,required"`
\* }
RequiredConfigType ==
    << Field("Name", "string", "", <<"N", "A", "M", "E", "|", "A", "L", "I", "A", "S", ",", "r", "e", "q", "u", "i", "r", "e", "d">>),
       Field("Mode", "string", "", <<"M", "O", "D", "E", ",", "d", "e", "f", "a", "u", "l", "t", "=", "d", "e", "v", ",", "r", "e", "q", "u", "i", "r", "e", "d">>) >>

\* type DB struct {
\*     Port int `env:"PORT"`
\* }
DBType == << Field("Port", "int", "", PORT) >>

\* type Wrap struct {
\*     Replica DB `env:"R"`
\* }
WrapType == << Field("Replica", "struct", "DB", <<"R">>) >>

\* type App struct {
\*     Primary DB   `env:"P"`
\*     DB                        embedded, no tag
\*     Deep    Wrap `env:"D"`
\*     Note    string            no tag
\*     Tail    string `env:"PORT"`
\* }
AppType ==
    << Field("Primary", "struct", "DB", <<"P">>),
       Field("DB", "struct", "DB", <<>>),
       Field("Deep", "struct", "Wrap", <<"D">>),
       Field("Note", "string", "", <<>>),
       Field("Tail", "string", "", PORT) >>

\* type FileConfig struct {
\*     Key  string `env:"KEY,file,default=/f"`
\*     Path string `env:"KEY"`
\* }
FileConfigType ==
    << Field("Key", "string", "", <<"K", "E", "Y", ",", "f", "i", "l", "e", ",", "d", "e", "f", "a", "u", "l", "t", "=", "/", "f">>),
       Field("Path", "string", "", KEY) >>

\* type ExpandConfig struct {
\*     Host string `env:"HOST,default=localhost"`
\*     Addr string `env:"ADDR,default=${HOST}:${PORT},expand"`
\* }
ExpandConfigType ==
    << Field("Host", "string", "", <<"H", "O", "S", "T", ",", "d", "e", "f", "a", "u", "l", "t", "=", "l", "o", "c", "a", "l", "h", "o", "s", "t">>),
       Field("Addr", "string", "", <<"A", "D", "D", "R", ",", "d", "e", "f", "a", "u", "l", "t", "=", "$", "{", "H", "O", "S", "T", "}", ":", "$", "{", "P", "O", "R", "T", "}", ",", "e", "x", "p", "a", "n", "d">>) >>

\* type Elems struct {
\*     VAL string
\*     E   []complex64 `env:"VAL"`
\* }
ElemsType ==
    << Field("VAL", "string", "", <<>>),
       Field("E", "slice", "complex64", VAL) >>

\* type Inner struct {
\*     Addr string `env:"ADDR,default=${HOST}:${PORT},expand"`
\*     Port string `env:"PORT,default=80"`
\*     Name string `env:"NAME|ALIAS,required"`
\* }
InnerType ==
    << Field("Addr", "string", "", <<"A", "D", "D", "R", ",", "d", "e", "f", "a", "u", "l", "t", "=", "$", "{", "H", "O", "S", "T", "}", ":", "$", "{", "P", "O", "R", "T", "}", ",", "e", "x", "p", "a", "n", "d">>),
       Field("Port", "string", "", <<"P", "O", "R", "T", ",", "d", "e", "f", "a", "u", "l", "t", "=", "8", "0">>),
       Field("Name", "string", "", <<"N", "A", "M", "E", "|", "A", "L", "I", "A", "S", ",", "r", "e", "q", "u", "i", "r", "e", "d">>) >>

\* type Service struct {
\*     Host string `env:"HOST,default=localhost"`
\*     Mode string `env:"MODE,default=${PORT},expand"`
\*     In   Inner  `env:"P"`
\* }
ServiceType ==
    << Field("Host", "string", "", <<"H", "O", "S", "T", ",", "d", "e", "f", "a", "u", "l", "t", "=", "l", "o", "c", "a", "l", "h", "o", "s", "t">>),
       Field("Mode", "string", "", <<"M", "O", "D", "E", ",", "d", "e", "f", "a", "u", "l", "t", "=", "$", "{", "P", "O", "R", "T", "}", ",", "e", "x", "p", "a", "n", "d">>),
       Field("In", "struct", "Inner", <<"P">>) >>

Types ==
    [Config |-> ConfigType, Kinds |-> KindsType, RequiredConfig |-> RequiredConfigType,
     DB |-> DBType, Wrap |-> WrapType, App |-> AppType,
     FileConfig |-> FileConfigType, ExpandConfig |-> ExpandConfigType,
     Elems |-> ElemsType, Inner |-> InnerType, Service |-> ServiceType]

\* the bits of the sized integer kinds that are narrower than the parsed
\* 64-bit value
NarrowBits == [int8 |-> 8, int16 |-> 16, uint8 |-> 8, uint16 |-> 16]

SignedKinds == {"int", "int8", "int16", "int32", "int64"}
UnsignedKinds == {"uint", "uint8", "uint16", "uint32", "uint64"}
FloatKinds == {"float32", "float64"}

RECURSIVE Pow2(_)
Pow2(n) == IF n = 0 THEN 1 ELSE 2 * Pow2(n - 1)

\* reflect.Value.SetInt: the 64-bit value converted to the field's own type,
\* which keeps its low bits
SetInt(kind, x) ==
    IF kind \in DOMAIN NarrowBits
    THEN LET m == Pow2(NarrowBits[kind])
             r == x % m
         IN  IF r >= m \div 2 THEN r - m ELSE r
    ELSE x

\* reflect.Value.SetUint: likewise
SetUint(kind, x) ==
    IF kind \in DOMAIN NarrowBits THEN x % Pow2(NarrowBits[kind]) ELSE x

\* reflect.Zero of a field, and of a struct type
RECURSIVE Zero(_)
ZeroStruct(T) ==
    LET fs == Types[T]
        byName(n) == fs[CHOOSE i \in DOMAIN fs : fs[i].name = n]
    IN  [n \in {fs[i].name : i \in DOMAIN fs} |-> Zero(byName(n))]

Zero(fd) ==
    IF fd.kind = "struct" THEN ZeroStruct(fd.of)
    ELSE IF fd.kind = "string" THEN <<>>
    ELSE IF fd.kind = "bool" THEN FALSE
    ELSE IF fd.kind \in SignedKinds \cup UnsignedKinds THEN 0
    ELSE IF fd.kind \in FloatKinds THEN [m |-> 0, e |-> 0]
    ELSE IF fd.kind = "slice" THEN <<>>
    ELSE [re |-> 0, im |-> 0]

\* reflect.Kind.String() of the kinds that setField does not support
KindName(kind) == IF kind = "complex64" THEN <<"c", "o", "m", "p", "l", "e", "x", "6", "4">> ELSE <<"s", "t", "r", "u", "c", "t">>

-----------------------------------------------------------------------------
(* unmarshal.go: setField. The result is the field's value after the call   *)
(* and the error returned.                                                  *)

setSlice(fd, cur, value) ==
    LET set(r) == [val |-> IF r.err = NoErr THEN r.val ELSE cur, err |-> r.err]
    IN  IF fd.of = "string" THEN [val |-> Split(value, <<",">>), err |-> NoErr]
        ELSE IF fd.of = "bool" THEN set(parseBoolSlice(value))
        ELSE IF fd.of = "int" THEN set(parseIntSlice(value))
        ELSE IF fd.of = "uint" THEN set(parseUintSlice(value))
        ELSE IF fd.of = "float64" THEN set(parseFloatSlice(value))
        ELSE [val |-> cur, err |-> ElemKindErr(KindName(fd.of))]

\* a switch that passes over the kinds it does not support without an error
setKindLenient(fd, cur, value) ==
    IF fd.kind = "complex64" \/ (fd.kind = "slice" /\ fd.of = "complex64")
    THEN [val |-> cur, err |-> NoErr]
    ELSE IF fd.kind = "string" THEN [val |-> value, err |-> NoErr]
    ELSE IF fd.kind = "bool"
    THEN [val |-> IF parseBool(value).err = NoErr THEN parseBool(value).b ELSE cur,
          err |-> parseBool(value).err]
    ELSE IF fd.kind \in SignedKinds
    THEN [val |-> IF ParseInt("strconv.ParseInt", value).err = NoErr
                  THEN SetInt(fd.kind, ParseInt("strconv.ParseInt", value).n) ELSE cur,
          err |-> ParseInt("strconv.ParseInt", value).err]
    ELSE IF fd.kind \in UnsignedKinds
    THEN [val |-> IF ParseUint(value).err = NoErr
                  THEN SetUint(fd.kind, ParseUint(value).n) ELSE cur,
          err |-> ParseUint(value).err]
    ELSE IF fd.kind \in FloatKinds
    THEN [val |-> IF ParseFloat(value).err = NoErr THEN ParseFloat(value).x ELSE cur,
          err |-> ParseFloat(value).err]
    ELSE setSlice(fd, cur, value)

\* setField, lines 238-300: the switch on the kind of the field
setKind(fd, cur, value) ==
    IF fd.kind = "string" THEN [val |-> value, err |-> NoErr]
    ELSE IF fd.kind = "bool"
    THEN LET r == parseBool(value)
         IN  [val |-> IF r.err = NoErr THEN r.b ELSE cur, err |-> r.err]
    ELSE IF fd.kind \in SignedKinds
    THEN LET r == ParseInt("strconv.ParseInt", value)
         IN  [val |-> IF r.err = NoErr THEN SetInt(fd.kind, r.n) ELSE cur, err |-> r.err]
    ELSE IF fd.kind \in UnsignedKinds
    THEN LET r == ParseUint(value)
         IN  [val |-> IF r.err = NoErr THEN SetUint(fd.kind, r.n) ELSE cur, err |-> r.err]
    ELSE IF fd.kind \in FloatKinds
    THEN LET r == ParseFloat(value)
         IN  [val |-> IF r.err = NoErr THEN r.x ELSE cur, err |-> r.err]
    ELSE IF fd.kind = "slice" THEN setSlice(fd, cur, value)
    ELSE [val |-> cur, err |-> KindErr(KindName(fd.kind))]

\* a setField without the early return on the empty value
setFieldOfEmpty(fd, cur, value) == setKind(fd, cur, value)

setField(fd, cur, value) ==
    IF value = <<>> THEN [val |-> cur, err |-> NoErr]
    ELSE setKind(fd, cur, value)

-----------------------------------------------------------------------------
(* unmarshal.go: expansion of ${var} and $var placeholders.                 *)

IsNameStart(c) == c \in Range(UpperLetters) \cup Range(LowerLetters) \cup {"_"}
IsNameChar(c) == IsNameStart(c) \/ IsDigit(c)

\* regexp \$\{([^}]+)\}|\$([A-Za-z_][A-Za-z0-9_]*) matched at index i of s:
\* [ok, end, name], end the index of the match's last character and name the
\* group that matched. The first alternative is preferred.
placeholderAt(s, i) ==
    LET closes == {j \in (i + 2)..Len(s) : s[j] = "}"}
        braced == /\ i + 1 <= Len(s)
                  /\ s[i + 1] = "{"
                  /\ closes # {}
                  /\ Min(closes) > i + 2
        plain == i + 1 <= Len(s) /\ IsNameStart(s[i + 1])
        stops == {j \in (i + 1)..Len(s) : ~IsNameChar(s[j])}
        last0 == IF stops = {} THEN Len(s) ELSE Min(stops) - 1
    IN  IF s[i] # "$" THEN [ok |-> FALSE, end |-> i, name |-> <<>>]
        ELSE IF braced
        THEN [ok |-> TRUE, end |-> Min(closes), name |-> SubSeq(s, i + 2, Min(closes) - 1)]
        ELSE IF plain
        THEN [ok |-> TRUE, end |-> last0, name |-> SubSeq(s, i + 1, last0)]
        ELSE [ok |-> FALSE, end |-> i, name |-> <<>>]

\* re.FindAllStringSubmatch(value, -1) from index i: the successive
\* non-overlapping matches, each as [text, name] (match[0] and the variable)
RECURSIVE findAllPlaceholders(_, _)
findAllPlaceholders(s, i) ==
    IF i > Len(s) THEN <<>>
    ELSE LET m == placeholderAt(s, i)
         IN  IF m.ok
             THEN <<[text |-> SubSeq(s, i, m.end), name |-> m.name]>>
                  \o findAllPlaceholders(s, m.end + 1)
             ELSE findAllPlaceholders(s, i + 1)

\* getDefaultFromStruct(fieldName, structPtr), structPtr pointing to a struct
\* of type T: the loop from field i. defaultOfField is the body of the loop for
\* a field with the parsed tag tagOpts: the value returned, or no value (<<>>)
\* to go on with the next field; nested is the result of the recursive call
\* on a struct field.
defaultOfField(fieldName, tagOpts, nested) ==
    IF tagOpts.keys[1] = fieldName /\ tagOpts.fallback # <<>> THEN tagOpts.fallback
    ELSE nested

RECURSIVE defaultFromFields(_, _, _)
defaultOrNext(fieldName, T, i, found) ==
    IF found # <<>> THEN found ELSE defaultFromFields(fieldName, T, i + 1)

defaultFromFields(fieldName, T, i) ==
    IF i > Len(Types[T]) THEN <<>>
    ELSE defaultOrNext(fieldName, T, i,
            defaultOfField(fieldName, parseTag(Types[T][i].tag),
                           IF Types[T][i].kind = "struct"
                           THEN defaultFromFields(fieldName, Types[T][i].of, 1)
                           ELSE <<>>))

getDefaultFromStruct(fieldName, T) == defaultFromFields(fieldName, T, 1)

\* the value that expandVariables substitutes for the variable envVar
envValueOf(e, envVar, T) ==
    IF Lookup(e, envVar).ok THEN Lookup(e, envVar).val
    ELSE getDefaultFromStruct(envVar, T)

\* the loop of expandVariables over the matches, from match k
RECURSIVE expandMatches(_, _, _, _, _)
expandMatches(e, value, matches, k, T) ==
    IF k > Len(matches) THEN value
    ELSE expandMatches(e,
                       Replace(value, matches[k].text, envValueOf(e, matches[k].name, T)),
                       matches, k + 1, T)

\* expandVariables(value, structPtr), structPtr pointing to a struct of type T
expandVariables(e, value, T) ==
    expandMatches(e, value, findAllPlaceholders(value, 1), 1, T)

-----------------------------------------------------------------------------
(* unmarshal.go: the walk over the fields.                                  *)

\* the loop of findFieldValue from key i
RECURSIVE findFrom(_, _, _, _)
findFrom(e, keys, prefix, i) ==
    IF i > Len(keys) THEN [val |-> <<>>, ok |-> FALSE]
    ELSE IF Lookup(e, prefix \o keys[i]).ok
    THEN [val |-> Lookup(e, prefix \o keys[i]).val, ok |-> TRUE]
    ELSE findFrom(e, keys, prefix, i + 1)

\* a findFieldValue that consults the first key of the tag only
findFieldValueFirstKey(e, keys, prefix) == Lookup(e, prefix \o keys[1])

\* a findFieldValue whose loop does not return at the first present key: the
\* last present key wins
findFieldValueLast(e, keys, prefix) ==
    LET present == {i \in DOMAIN keys : Lookup(e, prefix \o keys[i]).ok}
        i == CHOOSE j \in present : \A m \in present : m <= j
    IN  IF present = {} THEN [val |-> <<>>, ok |-> FALSE]
        ELSE [val |-> e[prefix \o keys[i]], ok |-> TRUE]

\* findFieldValue(keys, prefix)
findFieldValue(e, keys, prefix) == findFrom(e, keys, prefix, 1)

\* a file option that swallows the read error and keeps the path as the value
fileValueSwallow(tagOpts, value, found) ==
    IF tagOpts.file /\ found /\ readFileContent(value).err = NoErr
    THEN [val |-> readFileContent(value).content, err |-> NoErr]
    ELSE [val |-> value, err |-> NoErr]

\* unmarshalField, lines 61-68: the value after the file option, and the error
fileValue(tagOpts, value, found) ==
    IF tagOpts.file /\ found
    THEN [val |-> readFileContent(value).content, err |-> readFileContent(value).err]
    ELSE [val |-> value, err |-> NoErr]

\* a fallback that replaces the value found in the environment
fallbackValueAlways(tagOpts, value, found) ==
    IF tagOpts.fallback # <<>> THEN tagOpts.fallback ELSE value

\* unmarshalField, lines 70-72: the value after the fallback
fallbackValue(tagOpts, value, found) ==
    IF ~found /\ tagOpts.fallback # <<>> THEN tagOpts.fallback ELSE value

\* a required check made before the fallback is substituted
requiredBeforeFallback(tagOpts, value) ==
    tagOpts.required /\ (value = <<>> \/ value = tagOpts.fallback)

\* unmarshalField, line 78: the required check
requiredMissing(tagOpts, value) == tagOpts.required /\ value = <<>>

\* unmarshalField, line 82: whether setField is called
callsSetField(found, value) == found \/ value # <<>>

\* unmarshalField, lines 70-76: the value after the fallback and the expansion
resolvedValue(e, tagOpts, T, value, found) ==
    IF tagOpts.expand
    THEN expandVariables(e, fallbackValue(tagOpts, value, found), T)
    ELSE fallbackValue(tagOpts, value, found)

\* a store in which a value pre-set in code wins over the tag default
storeValueKeepPreset(fd, cur, tagOpts, found, value) ==
    IF requiredMissing(tagOpts, value)
    THEN [val |-> cur, err |-> RequiredErr(tagOpts.keys[1])]
    ELSE IF found \/ (value # <<>> /\ cur = Zero(fd)) THEN setField(fd, cur, value)
    ELSE [val |-> cur, err |-> NoErr]

\* unmarshalField, lines 78-86, for the resolved value: fd is the field and
\* cur its value. The result is the field's value after the call and the
\* error returned.
storeValue(fd, cur, tagOpts, found, value) ==
    IF requiredMissing(tagOpts, value)
    THEN [val |-> cur, err |-> RequiredErr(tagOpts.keys[1])]
    ELSE IF callsSetField(found, value) THEN setField(fd, cur, value)
    ELSE [val |-> cur, err |-> NoErr]

\* unmarshalField, lines 61-86: fv is the value after the file option and
\* the error of reading the file
fieldFromFile(e, fd, cur, T, tagOpts, found, fv) ==
    IF fv.err # NoErr THEN [val |-> cur, err |-> fv.err]
    ELSE storeValue(fd, cur, tagOpts, found,
                    resolvedValue(e, tagOpts, T, fv.val, found))

\* unmarshalField, lines 59-86: f is the result of findFieldValue
fieldFromLookup(e, fd, cur, T, tagOpts, f) ==
    fieldFromFile(e, fd, cur, T, tagOpts, f.ok, fileValue(tagOpts, f.val, f.ok))

\* an unmarshalField whose errors name the keys with the prefix of the lookup
fieldFromOptionsPrefixed(e, fd, cur, prefix, T, tagOpts) ==
    fieldFromLookup(e, fd, cur, T,
                    [tagOpts EXCEPT !.keys = [i \in DOMAIN tagOpts.keys |-> prefix \o tagOpts.keys[i]]],
                    findFieldValue(e, tagOpts.keys, prefix))

\* unmarshalField, lines 58-86: tagOpts is the parsed tag
fieldFromOptions(e, fd, cur, prefix, T, tagOpts) ==
    fieldFromLookup(e, fd, cur, T, tagOpts, findFieldValue(e, tagOpts.keys, prefix))

\* unmarshalField(field, tag, prefix, structPtr) in environment e: fd is the
\* field, cur its value, T the type structPtr points to. The result is the
\* field's value after the call and the error returned.
unmarshalField(e, fd, cur, prefix, T) ==
    fieldFromOptions(e, fd, cur, prefix, T, parseTag(fd.tag))

\* a prefix that forgets the prefix of the enclosing struct
newPrefixOfTagOnly(prefix, tag) == IF tag # <<>> THEN tag \o <<"_">> ELSE prefix

\* unmarshalStruct, lines 49-52: the prefix of a nested struct
newPrefix(prefix, tag) == IF tag # <<>> THEN prefix \o tag \o <<"_">> ELSE prefix

\* the loop of unmarshalWithPrefix(data, prefix) from field i, data pointing
\* to the struct v of type T: the struct after the call and the error returned.
\* afterField is the end of the loop's body: r is what the field named name
\* became and the error of it, which ends the loop.
RECURSIVE unmarshalFields(_, _, _, _, _)
\* an end of the loop's body that goes on after an error and loses it
afterFieldGoOn(e, T, v, prefix, i, name, r) ==
    unmarshalFields(e, T, [v EXCEPT ![name] = r.val], prefix, i + 1)

afterField(e, T, v, prefix, i, name, r) ==
    IF r.err # NoErr THEN [val |-> [v EXCEPT ![name] = r.val], err |-> r.err]
    ELSE unmarshalFields(e, T, [v EXCEPT ![name] = r.val], prefix, i + 1)

\* unmarshalStruct(data, prefix, tag), data pointing to the struct v of type T
unmarshalStruct(e, T, v, prefix, tag) ==
    unmarshalFields(e, T, v, newPrefix(prefix, tag), 1)

\* a loop body that reads a field without tag under the key VAL
fieldStepOfUntagged(e, T, v, prefix, i, fd) ==
    IF fd.kind = "struct"
    THEN afterField(e, T, v, prefix, i, fd.name,
                    unmarshalStruct(e, fd.of, v[fd.name], prefix, fd.tag))
    ELSE afterField(e, T, v, prefix, i, fd.name,
                    unmarshalField(e, IF fd.tag = <<>> THEN [fd EXCEPT !.tag = VAL] ELSE fd,
                                   v[fd.name], prefix, T))

\* unmarshalWithPrefix, lines 23-41: the body of the loop for the i-th field
fieldStep(e, T, v, prefix, i, fd) ==
    IF fd.kind = "struct"
    THEN afterField(e, T, v, prefix, i, fd.name,
                    unmarshalStruct(e, fd.of, v[fd.name], prefix, fd.tag))
    ELSE IF fd.tag = <<>> THEN unmarshalFields(e, T, v, prefix, i + 1)
    ELSE afterField(e, T, v, prefix, i, fd.name,
                    unmarshalField(e, fd, v[fd.name], prefix, T))

unmarshalFields(e, T, v, prefix, i) ==
    IF i > Len(Types[T]) THEN [val |-> v, err |-> NoErr]
    ELSE fieldStep(e, T, v, prefix, i, Types[T][i])

unmarshalWithPrefix(e, T, v, prefix) == unmarshalFields(e, T, v, prefix, 1)

-----------------------------------------------------------------------------
(* The state: the environment env, the struct cfg of type typ that the      *)
(* caller passes to Unmarshal, and what the calls so far returned.          *)
(*   pre, err   cfg before the latest Unmarshal call and the error of it    *)
(*   last       the latest call: "Init", "Set", "Unset" or "Unmarshal"      *)
(*   trail      a failed Unmarshal call that was followed by a Set call and *)
(*              then by another Unmarshal call: [st, err, env, key, val],   *)
(*              st going failed, set, retried; err and env are those of the *)
(*              failed call, key and val those of the Set call              *)
(*   calls      the number of Unmarshal calls so far (of calls of the       *)
(*              function, when a function is called on its own)             *)
(*   args       the arguments of the latest call of a getter, of Lookup,    *)
(*              Require, or of one of the functions called on their own     *)
(*   ret        what that call returned                                     *)
(*   recent     for every key, the latest Set or Unset call on it           *)
(*   run        the Unmarshal calls that run at the same time, one for     *)
(*              every goroutine, each with its own struct and its place in  *)
(*              the walk over the fields                                    *)

\* the Unmarshal calls of one run, which ends with the last of them
MaxCalls == 2

EmptyEnv == [k \in {} |-> <<>>]

\* the types the caller passes, each with the keys and the values that the
\* Set and Unset calls of the model use
Inputs ==
    [Config |-> [keys |-> {HOST, ADDR, PORT},
                 vals |-> {<<>>, <<"8", "0">>}],
     Kinds |-> [keys |-> {VAL},
                vals |-> {<<>>, <<"1">>, <<"x">>}],
     RequiredConfig |-> [keys |-> {NAME, ALIAS, MODE},
                         vals |-> {<<>>, <<"a">>}],
     App |-> [keys |-> {P_PORT, PORT, D_R_PORT},
              vals |-> {<<"7">>, <<"x">>}],
     Elems |-> [keys |-> {VAL},
                vals |-> {<<>>, <<"1">>}],
     Service |-> [keys |-> {HOST, <<"P", "_", "N", "A", "M", "E">>},
                  vals |-> {<<"a">>, <<"$", "{", "M", "O", "D", "E", "}">>}],
     FileConfig |-> [keys |-> {KEY},
                     vals |-> {<<>>, PathF, <<"/", "x">>}],
     ExpandConfig |-> [keys |-> {HOST, ADDR},
                       vals |-> {<<"h">>, <<"$", "{", "P", "O", "R", "T", "}">>, <<"$", "H", "O", "S", "T", ":", "$", "H", "O", "S", "T", "N", "A", "M", "E">>}]]

\* the struct the caller initialised in code before the call
Preset ==
    [Config |-> [Host |-> <<"s", "y", "n", "t", "a", "q", "x", ".", "c", "o", "m">>, Port |-> 3306],
     Kinds |-> [S |-> <<"s">>, B |-> TRUE, I |-> 5, I8 |-> 5, U |-> 5,
                F |-> [m |-> 15, e |-> 1], L |-> <<<<"a">>>>, N |-> <<5>>,
                C |-> [re |-> 1, im |-> 0]],
     RequiredConfig |-> [Name |-> <<"n">>, Mode |-> <<"m">>],
     App |-> [Primary |-> [Port |-> 1], DB |-> [Port |-> 2],
              Deep |-> [Replica |-> [Port |-> 3]], Note |-> <<"n">>, Tail |-> <<"t">>],
     Elems |-> [VAL |-> <<"v">>, E |-> <<[re |-> 1, im |-> 0]>>],
     Service |-> [Host |-> <<"h">>, Mode |-> <<"m">>,
                  In |-> [Addr |-> <<"a">>, Port |-> <<"p">>, Name |-> <<"n">>]],
     FileConfig |-> [Key |-> <<"k">>, Path |-> <<"p">>],
     ExpandConfig |-> [Host |-> <<"s", "y", "n", "t", "a", "q", "x", ".", "c", "o", "m">>, Addr |-> <<"a">>]]

\* nothing returned yet, no Set or Unset call on any key yet, and no calls
\* running at the same time
NoRet == <<>>
NoCalls == [k \in {} |-> <<>>]
NoRun == <<>>

Idle == [st |-> "idle", err |-> NoErr, env |-> EmptyEnv, key |-> <<>>, val |-> <<>>]

Init ==
    /\ env = EmptyEnv
    /\ typ \in DOMAIN Inputs
    /\ cfg \in {ZeroStruct(typ), Preset[typ]}
    /\ pre = cfg
    /\ err = NoErr
    /\ last = "Init"
    /\ trail = Idle
    /\ calls = 0
    /\ args = <<>>
    /\ ret = NoRet
    /\ recent = NoCalls
    /\ run = NoRun

\* env.go: Set(key, value)
Set(key, value) ==
    /\ calls < MaxCalls
    /\ env' = SetEnv(env, key, value)
    /\ last' = "Set"
    /\ trail' = IF trail.st = "failed"
                THEN [trail EXCEPT !.st = "set", !.key = key, !.val = value]
                ELSE Idle
    /\ UNCHANGED <<typ, cfg, pre, err, calls, args, ret, recent, run>>

\* env.go: Unset(key)
Unset(key) ==
    /\ calls < MaxCalls
    /\ env' = UnsetEnv(env, key)
    /\ last' = "Unset"
    /\ trail' = Idle
    /\ UNCHANGED <<typ, cfg, pre, err, calls, args, ret, recent, run>>

\* unmarshal.go: Unmarshal(&cfg)
Unmarshal ==
    LET r == unmarshalWithPrefix(env, typ, cfg, <<>>)
    IN  /\ calls < MaxCalls
        /\ calls' = calls + 1
        /\ cfg' = r.val
        /\ err' = r.err
        /\ pre' = cfg
        /\ last' = "Unmarshal"
        /\ trail' = IF trail.st = "set" THEN [trail EXCEPT !.st = "retried"]
                    ELSE IF r.err # NoErr
                    THEN [st |-> "failed", err |-> r.err, env |-> env,
                          key |-> <<>>, val |-> <<>>]
                    ELSE Idle
        /\ UNCHANGED <<env, typ, args, ret, recent, run>>

Next ==
    \/ \E key \in Inputs[typ].keys : \E value \in Inputs[typ].vals : Set(key, value)
    \/ \E key \in Inputs[typ].keys : Unset(key)
    \/ Unmarshal

Spec == Init /\ [][Next]_vars

-----------------------------------------------------------------------------
(* What the properties below speak of: the fields of the struct one by one. *)

\* the value of the field at a path of field names
RECURSIVE FieldAt(_, _)
FieldAt(v, path) == IF path = <<>> THEN v ELSE FieldAt(v[Head(path)], Tail(path))

\* T1_..._Tn_ for the tags T1, ..., Tn
RECURSIVE JoinTags(_)
JoinTags(tags) ==
    IF tags = <<>> THEN <<>> ELSE Head(tags) \o <<"_">> \o JoinTags(Tail(tags))

\* a field that is no struct: its path, its declaration fd, the non-empty
\* tags of the struct fields on the path (outermost first), the struct type
\* that declares it, its parsed tag and its keys with their prefix, in the
\* order of the tag
Leaf(path, fd, tags, owner) ==
    [path |-> path, fd |-> fd, tags |-> tags, owner |-> owner,
     opts |-> parseTag(fd.tag),
     keys |-> [i \in DOMAIN parseTag(fd.tag).keys |->
                 JoinTags(tags) \o parseTag(fd.tag).keys[i]]]

\* the fields of type T that are no structs, in declaration order, nested
\* structs in place
RECURSIVE LeavesFrom(_, _, _, _)
LeavesFrom(T, path, tags, i) ==
    IF i > Len(Types[T]) THEN <<>>
    ELSE LET fd == Types[T][i]
         IN  (IF fd.kind = "struct"
              THEN LeavesFrom(fd.of, Append(path, fd.name),
                              IF fd.tag = <<>> THEN tags ELSE Append(tags, fd.tag), 1)
              ELSE <<Leaf(Append(path, fd.name), fd, tags, T)>>)
             \o LeavesFrom(T, path, tags, i + 1)

LeavesOf == [T \in DOMAIN Inputs |-> LeavesFrom(T, <<>>, <<>>, 1)]

\* the fields of the struct passed to Unmarshal
Leaves == LeavesOf[typ]

FullKeys(l) == l.keys

\* the indices of the keys of a field that are present in environment e
PresentIn(e, l) == {i \in DOMAIN FullKeys(l) : FullKeys(l)[i] \in DOMAIN e}

\* the value of the first key of a field that is present in environment e
FirstValue(e, l) == e[FullKeys(l)[Min(PresentIn(e, l))]]

Tagged(l) == l.fd.tag # <<>>

\* a tagged field whose value no option transforms
Plain(l) == Tagged(l) /\ ~l.opts.file /\ ~l.opts.expand

\* what a value becomes in a field: the coercion of setField
Coerced(l, cur, value) == setField(l.fd, cur, value).val

\* what Unmarshal does with the k-th field alone, given its value before the
\* call: the field's value and the error
Alone(k) ==
    IF Tagged(Leaves[k])
    THEN unmarshalField(env, Leaves[k].fd, FieldAt(pre, Leaves[k].path),
                        JoinTags(Leaves[k].tags), Leaves[k].owner)
    ELSE [val |-> FieldAt(pre, Leaves[k].path), err |-> NoErr]

\* the fields that fail alone, and whether every field before the k-th is fine
Failing == {k \in DOMAIN Leaves : Alone(k).err # NoErr}
EarlierFine(k) == \A j \in Failing : j >= k

Called == last = "Unmarshal"

-----------------------------------------------------------------------------
(* Lookup, fallback and the value already in the field.                     *)

\* C1: after a successful Unmarshal, a tagged field that is no struct (and
\* whose value no file or expand option transforms) holds the coerced tag
\* default exactly when none of its prefixed keys is present; when a key is
\* present, the field holds the coerced value of the first present key if
\* that value is not empty, whatever the declared default and whatever the
\* field held before, and is left as it was if that value is empty: the
\* default is not used then.
C1_LookupBeforeFallback ==
    Called /\ err = NoErr =>
      \A k \in DOMAIN Leaves :
        Plain(Leaves[k]) =>
          IF PresentIn(env, Leaves[k]) = {}
          THEN FieldAt(cfg, Leaves[k].path)
                 = Coerced(Leaves[k], FieldAt(pre, Leaves[k].path),
                           Leaves[k].opts.fallback)
          ELSE IF FirstValue(env, Leaves[k]) # <<>>
          THEN FieldAt(cfg, Leaves[k].path)
                 = Coerced(Leaves[k], Zero(Leaves[k].fd), FirstValue(env, Leaves[k]))
          ELSE FieldAt(cfg, Leaves[k].path) = FieldAt(pre, Leaves[k].path)

\* a field pre-set in code and with a declared default received the value of
\* its key instead
C1_Witness ==
    /\ Called /\ err = NoErr /\ typ = "Config"
    /\ HOST \in DOMAIN env /\ env[HOST] # <<>>
    /\ pre.Host = Preset["Config"].Host
    /\ cfg.Host = env[HOST]
    /\ cfg.Host # parseTag(ConfigType[1].tag).fallback

\* C2: a field with several keys takes the value of the first key, in the
\* order of the tag, that is present under the prefix; keys after it are not
\* consulted, also when the first present key holds the empty string (the
\* field is then left as it was) and a later key holds a value.
C2_FirstPresentKeyWins ==
    Called =>
      \A k \in DOMAIN Leaves :
        ( /\ Plain(Leaves[k])
          /\ Len(FullKeys(Leaves[k])) > 1
          /\ PresentIn(env, Leaves[k]) # {}
          /\ EarlierFine(k + 1) )
        => FieldAt(cfg, Leaves[k].path)
             = Coerced(Leaves[k], FieldAt(pre, Leaves[k].path), FirstValue(env, Leaves[k]))

\* the first key holds the empty string, the second a value, and the field
\* kept what it held
C2_Witness ==
    /\ Called /\ typ = "Config" /\ err = NoErr
    /\ HOST \in DOMAIN env /\ env[HOST] = <<>>
    /\ ADDR \in DOMAIN env /\ env[ADDR] # <<>>
    /\ pre.Host = Preset["Config"].Host
    /\ cfg.Host = pre.Host

\* C3: when no key of a field is present and its tag declares a non-empty
\* default, a successful Unmarshal stores the coerced default whatever the
\* caller had pre-set in the field (for a field without the expand option,
\* whose default is stored as it is written).
C3_TagDefaultOverCode ==
    Called /\ err = NoErr =>
      \A k \in DOMAIN Leaves :
        ( /\ Tagged(Leaves[k])
          /\ ~Leaves[k].opts.expand
          /\ PresentIn(env, Leaves[k]) = {}
          /\ Leaves[k].opts.fallback # <<>> )
        => FieldAt(cfg, Leaves[k].path)
             = Coerced(Leaves[k], Zero(Leaves[k].fd), Leaves[k].opts.fallback)

\* the value pre-set in code was replaced by the tag default
C3_Witness ==
    /\ Called /\ err = NoErr /\ typ = "Config"
    /\ HOST \notin DOMAIN env /\ ADDR \notin DOMAIN env
    /\ pre.Host = Preset["Config"].Host
    /\ cfg.Host = <<"l", "o", "c", "a", "l", "h", "o", "s", "t">>
    /\ cfg.Host # pre.Host

\* the case of C4: no key present and no default, or the first present key
\* holds the empty string (the field is not required, and no file is read)
EmptyCase(l) ==
    /\ Tagged(l)
    /\ ~l.opts.required
    /\ IF PresentIn(env, l) = {}
       THEN l.opts.fallback = <<>>
       ELSE FirstValue(env, l) = <<>> /\ ~l.opts.file

ResolvedValue(l) ==
    IF l.opts.expand
    THEN expandVariables(env,
                         IF PresentIn(env, l) = {} THEN l.opts.fallback
                         ELSE FirstValue(env, l),
                         l.owner)
    ELSE IF PresentIn(env, l) = {} THEN l.opts.fallback
    ELSE FirstValue(env, l)

\* a required field (of which no file is read) whose value is still empty
RequiredEmpty(l) ==
    /\ Tagged(l)
    /\ l.opts.required
    /\ ~(l.opts.file /\ PresentIn(env, l) # {})
    /\ ResolvedValue(l) = <<>>

\* C5: Unmarshal fails with the required-variable error of a field exactly
\* when that field is required and its value is still empty after lookup,
\* fallback and expansion: a required field that is reached with an empty
\* value makes the call fail with the error naming its first key (no key and
\* no default, or an empty first present key), and a required-variable error
\* is only returned for such a field (not for one with no key present and a
\* non-empty default).
C5_RequiredAfterFallback ==
    Called =>
      /\ \A k \in DOMAIN Leaves :
           RequiredEmpty(Leaves[k]) /\ EarlierFine(k)
             => err = RequiredErr(Leaves[k].opts.keys[1])
      /\ err.kind = RequiredErr(<<>>).kind
           => \E k \in DOMAIN Leaves :
                /\ RequiredEmpty(Leaves[k])
                /\ err = RequiredErr(Leaves[k].opts.keys[1])
      /\ err = NoErr
           => \A k \in DOMAIN Leaves : ~RequiredEmpty(Leaves[k])

\* a required field with a default failed because its key held the empty
\* string, after a required field before it had passed
C5_Witness ==
    /\ Called /\ typ = "RequiredConfig"
    /\ NAME \in DOMAIN env /\ env[NAME] # <<>>
    /\ MODE \in DOMAIN env /\ env[MODE] = <<>>
    /\ err = RequiredErr(MODE)

\* a required field with a default and no key present passed with the default
C5_DefaultWitness ==
    /\ Called /\ typ = "RequiredConfig" /\ err = NoErr
    /\ MODE \notin DOMAIN env
    /\ cfg.Mode = <<"d", "e", "v">>

-----------------------------------------------------------------------------
(* A second call, nested structs, the first error.                          *)

\* the case of C6 for the k-th field: the call before the latest Set call
\* failed with the required-variable error of this field, which had no key
\* present then and has no default (nor a file or expand option), and that Set call
\* gave one of its keys a non-empty value that the field can hold
RetriedFor(k) ==
    /\ trail.st = "retried"
    /\ Plain(Leaves[k])
    /\ Leaves[k].opts.required
    /\ Leaves[k].opts.fallback = <<>>
    /\ PresentIn(trail.env, Leaves[k]) = {}
    /\ trail.err = RequiredErr(Leaves[k].opts.keys[1])
    /\ trail.key \in Range(Leaves[k].keys)
    /\ trail.val # <<>>
    /\ setField(Leaves[k].fd, FieldAt(pre, Leaves[k].path), trail.val).err = NoErr

\* C6: after an Unmarshal call that failed because a required field had no
\* key present and no default, a Set call that gives one of the field's
\* prefixed keys a non-empty value, and a second Unmarshal call on the same
\* struct: the field no longer fails, it holds the value that was set once
\* the call reaches it, and the call succeeds unless another field fails.
C6_RetryAfterSet ==
    \A k \in DOMAIN Leaves :
      RetriedFor(k) =>
        /\ Alone(k).err = NoErr
        /\ EarlierFine(k)
             => FieldAt(cfg, Leaves[k].path)
                  = Coerced(Leaves[k], FieldAt(pre, Leaves[k].path), trail.val)
        /\ (\A j \in DOMAIN Leaves : j # k => Alone(j).err = NoErr)
             => err = NoErr

\* the first call failed for NAME|ALIAS, ALIAS was set, and the second call
\* succeeded and stored the value
C6_Witness ==
    /\ typ = "RequiredConfig"
    /\ RetriedFor(1)
    /\ trail.key = ALIAS
    /\ err = NoErr
    /\ cfg.Name = trail.val
    /\ cfg.Name # pre.Name

\* C7: a field nested in struct fields with the tags T1, ..., Tn is looked up
\* under the keys T1_..._Tn_K and no others (an untagged or embedded struct
\* field adds nothing to the prefix): when Unmarshal gets past the field, it
\* holds the coerced value of the first of these keys that is present, and the
\* tag default (or its old value) when none of them is, whatever else the
\* environment holds.
C7_NestedPrefix ==
    Called =>
      \A k \in DOMAIN Leaves :
        ( /\ Plain(Leaves[k])
          /\ Len(Leaves[k].path) > 1
          /\ EarlierFine(k + 1) )
        => FieldAt(cfg, Leaves[k].path)
             = Coerced(Leaves[k], FieldAt(pre, Leaves[k].path),
                       IF \E i \in DOMAIN Leaves[k].opts.keys :
                            JoinTags(Leaves[k].tags) \o Leaves[k].opts.keys[i] \in DOMAIN env
                       THEN FirstValue(env, Leaves[k])
                       ELSE Leaves[k].opts.fallback)

\* three fields of the same struct type DB, reached through the tag P, through
\* an embedded field and through the tags D and R, were read from P_PORT, PORT
\* and D_R_PORT: only the last one was set
C7_Witness ==
    /\ Called /\ typ = "App" /\ err = NoErr
    /\ DOMAIN env = {P_PORT, D_R_PORT}
    /\ pre = ZeroStruct("App")
    /\ cfg.Primary.Port = 7
    /\ cfg.DB.Port = 0
    /\ cfg.Deep.Replica.Port = 7

\* C8: Unmarshal takes the fields in declaration order, nested structs in
\* place, and stops at the first field that fails: it returns that field's
\* error, the fields before it hold what Unmarshal assigned to them, and the
\* failing field and all fields after it, those of the enclosing structs
\* included, hold what they held before the call. Without a failing field
\* the call returns no error and every field holds its assigned value.
C8_FailFast ==
    Called =>
      IF Failing = {}
      THEN /\ err = NoErr
           /\ \A k \in DOMAIN Leaves : FieldAt(cfg, Leaves[k].path) = Alone(k).val
      ELSE /\ err = Alone(Min(Failing)).err
           /\ \A k \in DOMAIN Leaves :
                FieldAt(cfg, Leaves[k].path)
                  = IF k < Min(Failing) THEN Alone(k).val ELSE FieldAt(pre, Leaves[k].path)

\* the embedded DB.Port failed on PORT=x: Primary.Port before it was assigned,
\* Deep.Replica.Port and Tail after it were not, though their keys were set
C8_Witness ==
    /\ Called /\ typ = "App"
    /\ pre = Preset["App"]
    /\ DOMAIN env = {P_PORT, PORT, D_R_PORT}
    /\ env[P_PORT] = <<"7">> /\ env[PORT] = <<"x">> /\ env[D_R_PORT] = <<"7">>
    /\ err = NumErr("strconv.ParseInt", <<"x">>)
    /\ cfg.Primary.Port = 7 /\ pre.Primary.Port # 7
    /\ cfg.DB.Port = pre.DB.Port
    /\ cfg.Deep.Replica.Port = pre.Deep.Replica.Port
    /\ cfg.Tail = pre.Tail

-----------------------------------------------------------------------------
(* The file and expand options.                                             *)

C9_ErrorWitness ==
    /\ Called /\ typ = "FileConfig"
    /\ KEY \in DOMAIN env /\ env[KEY] = <<"/", "x">>
    /\ err = OpenErr(<<"/", "x">>)
    /\ pre = Preset["FileConfig"]
    /\ cfg = pre

\* KEY was absent: the default /f, the path of a readable file, was stored as
\* it is written
C9_DefaultWitness ==
    /\ Called /\ typ = "FileConfig" /\ err = NoErr
    /\ KEY \notin DOMAIN env
    /\ cfg.Key = PathF

\* the declared default of the field whose first key is name, the empty
\* string without one
DeclaredDefault(name) ==
    LET with == {k \in DOMAIN Leaves : /\ Tagged(Leaves[k])
                                       /\ Leaves[k].opts.keys[1] = name
                                       /\ Leaves[k].opts.fallback # <<>>}
    IN  IF with = {} THEN <<>> ELSE Leaves[Min(with)].opts.fallback

\* the value that C10 gives to the placeholder of the variable name
PlaceholderValue(name) ==
    IF name \in DOMAIN env THEN env[name] ELSE DeclaredDefault(name)

\* s from index i on with every placeholder replaced by its own value
RECURSIVE Substituted(_, _)
Substituted(s, i) ==
    IF i > Len(s) THEN <<>>
    ELSE IF placeholderAt(s, i).ok
    THEN PlaceholderValue(placeholderAt(s, i).name)
           \o Substituted(s, placeholderAt(s, i).end + 1)
    ELSE <<s[i]>> \o Substituted(s, i + 1)

\* C10: a field with the expand option that Unmarshal gets past holds its
\* resolved value (the value of its first present key, or the tag default)
\* with every ${NAME} and $NAME placeholder replaced by the environment value
\* of NAME when NAME is present, by the declared default of the field whose
\* first key is NAME when NAME is absent, and by the empty string without such
\* a default.
C10_ExpandEveryPlaceholder ==
    Called =>
      \A k \in DOMAIN Leaves :
        ( /\ Tagged(Leaves[k])
          /\ Leaves[k].opts.expand
          /\ ~Leaves[k].opts.file
          /\ EarlierFine(k + 1) )
        => FieldAt(cfg, Leaves[k].path)
             = Coerced(Leaves[k], FieldAt(pre, Leaves[k].path),
                       Substituted(IF PresentIn(env, Leaves[k]) = {}
                                   THEN Leaves[k].opts.fallback
                                   ELSE FirstValue(env, Leaves[k]), 1))

\* the placeholders of the default ${HOST}:${PORT} were replaced by the value
\* of HOST and, PORT being absent and without default, by the empty string
C10_PlainWitness ==
    /\ Called /\ typ = "ExpandConfig" /\ err = NoErr
    /\ DOMAIN env = {HOST} /\ env[HOST] = <<"h">>
    /\ cfg.Addr = <<"h", ":">>

-----------------------------------------------------------------------------
(* The functions of the package called on their own: parseTag, parseBool    *)
(* and setField applied to arguments drawn from the sets below.             *)

\* the segments s1, ..., sn of a tag as ,s1,...,sn
RECURSIVE JoinSegments(_)
JoinSegments(segs) ==
    IF segs = <<>> THEN <<>> ELSE <<",">> \o Head(segs) \o JoinSegments(Tail(segs))

\* the tags parseTag is called on: a key-spec (also the empty one), segments
\* before the default (options, or segments that are no option), a default or
\* fallback (plain, in brackets, in nested brackets, an option's word) or
\* none, and options after it
TagKeySpecs == {<<"K">>, <<"A", "|", "B">>, <<>>, <<"A", "|", "B", "|", "C">>, <<"|">>}
TagFirst == {<<>>, <<<<"r", "e", "q", "u", "i", "r", "e", "d">>>>, <<<<"f", "i", "l", "e">>>>, <<<<"n", "o", "d", "e", "f", "a", "u", "l", "t", "=", "1">>>>, <<<<"p", "r", "e", "f", "i", "x", "=", "x">>>>}
TagValues ==
    {<<"a">>, <<"[", "a", "]">>, <<"[", "]">>, <<"[", "a", ",", "b", "]">>, <<"[", "a", ",", "b", ",", "c", "]">>, <<"[", ",", "]">>, <<"[", "a", ",", " ", "b", "]">>,
     <<"[", "a", ",", "[", "b", ",", "c", "]", ",", "d", "]">>, <<"[", "[", "a", ",", "b", "]", "]">>, <<"[", "[", "b", "]", ",", "r", "e", "q", "u", "i", "r", "e", "d", ",", "c", "]">>,
     <<"r", "e", "q", "u", "i", "r", "e", "d">>, <<"f", "i", "l", "e">>, <<"e", "x", "p", "a", "n", "d">>}
TagDefaults ==
    {<<>>} \cup {<<w \o v>> : w \in {DefaultEq, FallbackEq}, v \in TagValues}
TagRest ==
    {<<>>, <<<<"r", "e", "q", "u", "i", "r", "e", "d">>>>, <<<<"f", "i", "l", "e">>>>, <<<<"e", "x", "p", "a", "n", "d">>>>, <<<<" ", "r", "e", "q", "u", "i", "r", "e", "d">>>>,
     <<<<"r", "e", "q", "u", "i", "r", "e", "d">>, <<"f", "i", "l", "e">>, <<"e", "x", "p", "a", "n", "d">>>>}
Tags ==
    {k \o JoinSegments(b \o d \o a) :
       k \in TagKeySpecs, b \in TagFirst, d \in TagDefaults, a \in TagRest}

\* the strings parseBool is called on: the six words in every mix of upper
\* and lower case, and strings that are none of them
RECURSIVE CaseMixes(_)
CaseMixes(w) ==
    IF w = <<>> THEN {<<>>}
    ELSE {<<c>> \o r :
            c \in {Head(w)} \cup {UpperLetters[i] : i \in {j \in DOMAIN LowerLetters :
                                                          LowerLetters[j] = Head(w)}},
            r \in CaseMixes(Tail(w))}

BoolWords == {<<"t", "r", "u", "e">>, <<"1">>, <<"y", "e", "s">>, <<"f", "a", "l", "s", "e">>, <<"0">>, <<"n", "o">>}
BoolValues ==
    UNION {CaseMixes(w) : w \in BoolWords}
      \cup {<<>>, <<"2">>, <<"t">>, <<"f">>, <<"y">>, <<"n">>, <<"o", "n">>, <<"o", "f", "f">>, <<"t", "r", "u">>,
            <<"t", "r", "u", "e", "e">>, <<" ", "t", "r", "u", "e">>, <<"t", "r", "u", "e", " ">>, <<"0", "1">>, <<"1", "0">>, <<"-", "1">>, <<"n", "i", "l">>,
            <<"y", "e", "s", "!">>, <<"T">>, <<"o", "k">>, <<"0", ".", "0">>}

\* the fields setField is called on, one of every kind the claims speak of,
\* the value each held before the call when it was set in code, and the
\* values it is called with
SetFieldKinds ==
    {<<"string", "">>, <<"bool", "">>, <<"int", "">>, <<"int8", "">>,
     <<"int16", "">>, <<"uint", "">>, <<"uint8", "">>, <<"uint16", "">>,
     <<"float64", "">>, <<"complex64", "">>, <<"slice", "string">>,
     <<"slice", "bool">>, <<"slice", "int">>, <<"slice", "uint">>,
     <<"slice", "float64">>, <<"slice", "complex64">>}
SetFieldFields == {Field("X", k[1], k[2], VAL) : k \in SetFieldKinds}

SetInCode(fd) ==
    IF fd.kind = "string" THEN <<"s">>
    ELSE IF fd.kind = "bool" THEN TRUE
    ELSE IF fd.kind \in SignedKinds \cup UnsignedKinds THEN 5
    ELSE IF fd.kind \in FloatKinds THEN [m |-> 15, e |-> 1]
    ELSE IF fd.kind = "slice"
    THEN IF fd.of = "string" THEN <<<<"a">>>>
         ELSE IF fd.of = "bool" THEN <<TRUE>>
         ELSE IF fd.of \in {"int", "uint"} THEN <<5>>
         ELSE IF fd.of = "float64" THEN <<[m |-> 15, e |-> 1]>>
         ELSE <<[re |-> 1, im |-> 0]>>
    ELSE [re |-> 1, im |-> 0]

SetFieldValues ==
    {<<>>, <<"1">>, <<"0">>, <<"x">>, <<"-", "1">>, <<"+", "5">>, <<"1", "2", "7">>, <<"1", "2", "8">>, <<"-", "1", "2", "8">>,
     <<"-", "1", "2", "9">>, <<"2", "5", "5">>, <<"2", "5", "6">>, <<"3", "0", "0">>, <<"3", "2", "7", "6", "7">>, <<"3", "2", "7", "6", "8">>, <<"6", "5", "5", "3", "5">>,
     <<"6", "5", "5", "3", "6">>, <<"1", ".", "5">>, <<"t", "r", "u", "e">>, <<"Y", "E", "S">>, <<"n", "o">>, <<"m", "a", "y", "b", "e">>, <<"1", ",", "2">>,
     <<"1", ",", "x">>, <<"x", ",", "1">>, <<"1", ",", ",", "2">>, <<"2", ",", "1", ",", "3">>, <<"t", "r", "u", "e", ",", "n", "o">>, <<"t", "r", "u", "e", ",", "2">>,
     <<"1", ".", "5", ",", "2">>, <<"a", ",", "b">>, <<",">>, <<"1", ",", "-", "2">>,
     <<"t", "r", "u", "e", ",", "f", "a", "l", "s", "e">>, <<"f", "a", "l", "s", "e">>, <<"f", "a", "l", "s", "e", ",", "t", "r", "u", "e", ",", "t", "r", "u", "e">>, <<"-", "0", ".", "5", ",", "2">>, <<"0", ".", "5">>}

\* the calls of one function on its own: the function and its arguments
PureCalls ==
    [parseTag |-> {<<tag>> : tag \in Tags},
     parseBool |-> {<<value>> : value \in BoolValues},
     setField |-> UNION {{<<fd, Zero(fd), value>>, <<fd, SetInCode(fd), value>>} :
                           fd \in SetFieldFields, value \in SetFieldValues}]

\* one call of one function: last is the function, args are its arguments,
\* and calls is 0 until it has returned
PureInit ==
    /\ env = EmptyEnv
    /\ typ = "Config"
    /\ cfg = ZeroStruct(typ)
    /\ pre = cfg
    /\ err = NoErr
    /\ last \in DOMAIN PureCalls
    /\ args \in PureCalls[last]
    /\ trail = Idle
    /\ calls = 0
    /\ ret = NoRet
    /\ recent = NoCalls
    /\ run = NoRun

\* the function name is called on args and returns
Returns(name) ==
    /\ last = name
    /\ calls = 0
    /\ calls' = 1
    /\ UNCHANGED <<env, typ, cfg, pre, err, last, trail, args, recent, run>>

\* the function name has returned ret
Returned(name) == last = name /\ calls = 1

\* unmarshal.go: parseTag(tag)
parseTagCall == Returns("parseTag") /\ ret' = parseTag(args[1])

\* helpers.go: parseBool(value)
parseBoolCall == Returns("parseBool") /\ ret' = parseBool(args[1])

\* unmarshal.go: setField(field, value) on a field of declaration args[1]
\* that holds args[2]
setFieldCall == Returns("setField") /\ ret' = setField(args[1], args[2], args[3])

PureNext ==
    \/ parseTagCall
    \/ parseBoolCall
    \/ setFieldCall

PureSpec == PureInit /\ [][PureNext]_vars

-----------------------------------------------------------------------------
(* Tags with a default in brackets.                                         *)

\* the index of the bracket that closes the one opened before index i of s,
\* depth brackets being open at i; 0 when there is none
RECURSIVE CloseOf(_, _, _)
CloseOf(s, i, depth) ==
    IF i > Len(s) THEN 0
    ELSE IF s[i] = "[" THEN CloseOf(s, i + 1, depth + 1)
    ELSE IF s[i] = "]"
    THEN IF depth = 1 THEN i ELSE CloseOf(s, i + 1, depth - 1)
    ELSE CloseOf(s, i + 1, depth)

\* the index of the opening bracket of the first ,default=[ or ,fallback=[ of
\* the tag; 0 when there is none
OpenOf(tag) ==
    LET I == {i \in 1..Len(tag) :
                \/ HasPrefixAt(tag, i - Len(DefaultBr) - 1, <<",">> \o DefaultBr)
                \/ HasPrefixAt(tag, i - Len(FallbackBr) - 1, <<",">> \o FallbackBr)}
    IN  IF I = {} THEN 0 ELSE Min(I) - 1

\* the text between the brackets of the tag's default
Interior(tag) == SubSeq(tag, OpenOf(tag) + 1, CloseOf(tag, OpenOf(tag) + 1, 1) - 1)

\* the default of the tag is wrapped in brackets, the closing bracket ending
\* the option, and contains a comma
WrappedWithCommas(tag) ==
    /\ OpenOf(tag) # 0
    /\ CloseOf(tag, OpenOf(tag) + 1, 1) # 0
    /\ \/ CloseOf(tag, OpenOf(tag) + 1, 1) = Len(tag)
       \/ tag[CloseOf(tag, OpenOf(tag) + 1, 1) + 1] = ","
    /\ Contains(Interior(tag), <<",">>)

\* the option segments of the tag before and after its default in brackets
OptionsAround(tag) ==
    Range(Split(SubSeq(tag, Index(tag, <<",">>) + 1,
                       OpenOf(tag) - Len(DefaultBr) - 1), <<",">>))
      \cup Range(Split(SubSeq(tag, CloseOf(tag, OpenOf(tag) + 1, 1) + 2, Len(tag)),
                       <<",">>))

HasOption(tag, word) == \E seg \in OptionsAround(tag) : TrimSpace(seg) = word

\* C11: for a tag whose default or fallback is wrapped in square brackets and
\* contains commas, parseTag returns the text between the brackets, commas
\* included, as the fallback, and the options around it (required, file,
\* expand) are recognised.
C11_BracketDefaultVerbatim ==
    (Returned("parseTag") /\ WrappedWithCommas(args[1]))
    => /\ ret.fallback = Interior(args[1])
       /\ ret.required = HasOption(args[1], RequiredWord)
       /\ ret.file = HasOption(args[1], FileWord)
       /\ ret.expand = HasOption(args[1], ExpandWord)

\* the same for the defaults without a bracket between the brackets, which is
\* the part of C11 that the code meets
C11_FlatBracketDefault ==
    ( /\ Returned("parseTag")
      /\ WrappedWithCommas(args[1])
      /\ ~Contains(Interior(args[1]), <<"[">>) )
    => /\ ret.fallback = Interior(args[1])
       /\ ret.required = HasOption(args[1], RequiredWord)
       /\ ret.file = HasOption(args[1], FileWord)
       /\ ret.expand = HasOption(args[1], ExpandWord)

\* the tag of the test: default=[a,b,c] followed by required
C11_FlatWitness ==
    /\ Returned("parseTag")
    /\ args[1] = <<"K", ",", "d", "e", "f", "a", "u", "l", "t", "=", "[", "a", ",", "b", ",", "c", "]", ",", "r", "e", "q", "u", "i", "r", "e", "d">>
    /\ ret.fallback = <<"a", ",", "b", ",", "c">>
    /\ ret.required

-----------------------------------------------------------------------------
(* Coercion of a value to the kind of the field.                            *)

\* v is the word w but for the case of its letters
SameButCase(v, w) ==
    /\ Len(v) = Len(w)
    /\ \A i \in DOMAIN w :
         \/ v[i] = w[i]
         \/ \E j \in DOMAIN LowerLetters :
              LowerLetters[j] = w[i] /\ UpperLetters[j] = v[i]

SaysTrue(v) == \E w \in {<<"t", "r", "u", "e">>, <<"1">>, <<"y", "e", "s">>} : SameButCase(v, w)
SaysFalse(v) == \E w \in {<<"f", "a", "l", "s", "e">>, <<"0">>, <<"n", "o">>} : SameButCase(v, w)

C12_ErrorWitness ==
    /\ Returned("parseBool")
    /\ args = << <<"t", "r", "u", "e", "e">> >>
    /\ ret.err = [kind |-> "invalid boolean value", arg |-> <<"t", "r", "u", "e", "e">>]

\* a base-10 integer as it is written: an optional sign and digits
IsNumber(value) ==
    /\ value # <<>>
    /\ AllDigits(IF Head(value) \in {"+", "-"} THEN Tail(value) ELSE value)

NumberOf(value) ==
    IF Head(value) = "-" THEN 0 - DecVal(Tail(value))
    ELSE IF Head(value) = "+" THEN DecVal(Tail(value))
    ELSE DecVal(value)

\* the numbers that a field of the kind can hold; the numbers of the model
\* are all within 64 bits
InWidth(kind, n) ==
    CASE kind = "int8"   -> -128 <= n /\ n <= 127
      [] kind = "int16"  -> -32768 <= n /\ n <= 32767
      [] kind = "uint8"  -> 0 <= n /\ n <= 255
      [] kind = "uint16" -> 0 <= n /\ n <= 65535
      [] kind \in UnsignedKinds -> 0 <= n
      [] OTHER -> TRUE

\* setField was called with a non-empty value on an integer field (a value
\* with a plus sign on an unsigned field is left aside)
IntegerCase ==
    /\ Returned("setField")
    /\ args[1].kind \in SignedKinds \cup UnsignedKinds
    /\ args[3] # <<>>
    /\ ~(args[1].kind \in UnsignedKinds /\ Head(args[3]) = "+")

\* C13: for an integer field of any width, a value that is no base-10 number
\* or that does not fit in the width of the field makes setField return an
\* error and leave the field as it was; a value that fits is stored as it is.
C13_IntegerWidths ==
    IntegerCase
    => IF IsNumber(args[3]) /\ InWidth(args[1].kind, NumberOf(args[3]))
       THEN ret = [val |-> NumberOf(args[3]), err |-> NoErr]
       ELSE ret.err # NoErr /\ ret.val = args[2]

\* the same for the fields as wide as the parsed value (int, uint), which is
\* the part of C13 that the code meets
C13_WideIntegers ==
    (IntegerCase /\ args[1].kind \notin DOMAIN NarrowBits)
    => IF IsNumber(args[3]) /\ InWidth(args[1].kind, NumberOf(args[3]))
       THEN ret = [val |-> NumberOf(args[3]), err |-> NoErr]
       ELSE ret.err # NoErr /\ ret.val = args[2]

\* 128 was stored in an int8 field as -128 without an error
C13_NarrowWitness ==
    /\ Returned("setField")
    /\ args[1].kind = "int8"
    /\ args[3] = <<"1", "2", "8">>
    /\ ret = [val |-> -128, err |-> NoErr]

\* the indices of the commas of the value in ascending order, with 0 before
\* and the length plus one after them
RECURSIVE Ascending(_)
Ascending(S) ==
    IF S = {} THEN <<>> ELSE <<Min(S)>> \o Ascending(S \ {Min(S)})

Cuts(value) ==
    <<0>> \o Ascending({j \in DOMAIN value : value[j] = ","}) \o <<Len(value) + 1>>

\* the i-th part of the value, the parts being separated by commas
PartOf(value, i) == SubSeq(value, Cuts(value)[i] + 1, Cuts(value)[i + 1] - 1)

\* the i-th part coerced to the element kind, as [val, err]
ElementOf(of, value, i) ==
    IF of = "string" THEN [val |-> PartOf(value, i), err |-> NoErr]
    ELSE parsePartOf(of, PartOf(value, i))

\* setField was called with a non-empty value on a slice field of a supported
\* element kind
SliceCase ==
    /\ Returned("setField")
    /\ args[1].kind = "slice"
    /\ args[1].of \in {"string", "bool", "int", "uint", "float64"}
    /\ args[3] # <<>>

\* C14: setField on a slice field splits the non-empty value on ',' and
\* coerces every part to the element kind: the field receives one element per
\* part, in the order of the parts; if a part is malformed, setField returns
\* the error of a malformed part and the field keeps the value it had.
C14_SliceAllOrNothing ==
    SliceCase
    => LET n == Len(Cuts(args[3])) - 1
           bad == {i \in 1..n : ElementOf(args[1].of, args[3], i).err # NoErr}
       IN  IF bad = {}
           THEN /\ ret.err = NoErr
                /\ Len(ret.val) = n
                /\ \A i \in 1..n : ret.val[i] = ElementOf(args[1].of, args[3], i).val
           ELSE /\ \E i \in bad : ret.err = ElementOf(args[1].of, args[3], i).err
                /\ ret.val = args[2]

\* 2,1,3 gave the three elements in this order
C14_Witness ==
    /\ SliceCase
    /\ args[1].of = "int"
    /\ args[3] = <<"2", ",", "1", ",", "3">>
    /\ ret = [val |-> <<2, 1, 3>>, err |-> NoErr]

\* the second part of 1,x is malformed: its error was returned and the field
\* kept the slice set in code
C14_ErrorWitness ==
    /\ SliceCase
    /\ args[1].of = "int"
    /\ args[2] = <<5>>
    /\ args[3] = <<"1", ",", "x">>
    /\ ret = [val |-> <<5>>, err |-> NumErr("strconv.Atoi", <<"x">>)]

\* the kind that setField does not support, of the field or of the elements
\* of the slice field; the empty string for a field that it supports
UnsupportedKind(fd) ==
    IF fd.kind = "slice"
    THEN IF fd.of \in {"string", "bool", "int", "uint", "float64"} THEN "" ELSE fd.of
    ELSE IF fd.kind \in {"string", "bool"} \cup SignedKinds \cup UnsignedKinds \cup FloatKinds
    THEN "" ELSE fd.kind

\* the name of the kinds of the model as the errors write it
WrittenKind(kind) == IF kind = "complex64" THEN <<"c", "o", "m", "p", "l", "e", "x", "6", "4">> ELSE <<>>

\* C15: a non-empty value for a field of a kind that is not string, bool,
\* integer, float or slice, or for a slice field whose element kind is not
\* string, bool, int, uint or float64, makes setField return an error that
\* names the kind and leave the field as it was, and Unmarshal returns that
\* error.
C15_UnsupportedKind ==
    Called =>
      \A k \in DOMAIN Leaves :
        ( /\ Plain(Leaves[k])
          /\ UnsupportedKind(Leaves[k].fd) # ""
          /\ EarlierFine(k)
          /\ \/ PresentIn(env, Leaves[k]) # {} /\ FirstValue(env, Leaves[k]) # <<>>
             \/ PresentIn(env, Leaves[k]) = {} /\ Leaves[k].opts.fallback # <<>> )
        => /\ err.arg = WrittenKind(UnsupportedKind(Leaves[k].fd))
           /\ err.kind = IF Leaves[k].fd.kind = "slice"
                         THEN "unsupported slice element kind"
                         ELSE "unsupported kind"
           /\ FieldAt(cfg, Leaves[k].path) = FieldAt(pre, Leaves[k].path)

\* Unmarshal reached the complex64 field with VAL=1, after it had set the
\* fields before it, and returned the error that names the kind
C15_Witness ==
    /\ Called /\ typ = "Kinds"
    /\ VAL \in DOMAIN env /\ env[VAL] = <<"1">>
    /\ pre = Preset["Kinds"]
    /\ cfg.N = <<1>>
    /\ cfg.C = pre.C
    /\ err = [kind |-> "unsupported kind", arg |-> <<"c", "o", "m", "p", "l", "e", "x", "6", "4">>]

\* Unmarshal of a struct with a []complex64 field with VAL=1
C15_ElementWitness ==
    /\ Called /\ typ = "Elems"
    /\ VAL \in DOMAIN env /\ env[VAL] = <<"1">>
    /\ pre = Preset["Elems"]
    /\ cfg = pre
    /\ err = [kind |-> "unsupported slice element kind", arg |-> <<"c", "o", "m", "p", "l", "e", "x", "6", "4">>]

-----------------------------------------------------------------------------
(* Fields without tag.                                                      *)

\* C16: a field that is no struct and has no env tag holds after every
\* Unmarshal call, whether it returned an error or not, the value it held
\* before the call, whatever the environment holds.
C16_UntaggedUntouched ==
    Called =>
      \A k \in DOMAIN Leaves :
        ~Tagged(Leaves[k])
        => FieldAt(cfg, Leaves[k].path) = FieldAt(pre, Leaves[k].path)

\* a successful call that assigned the tagged field after the untagged one,
\* which kept the value set in code
C16_Witness ==
    /\ Called /\ typ = "App" /\ err = NoErr
    /\ pre = Preset["App"]
    /\ PORT \in DOMAIN env
    /\ cfg.Tail = env[PORT] /\ cfg.Tail # pre.Tail
    /\ cfg.Note = <<"n">>

\* a failed call, with a variable in the environment whose key is the name of
\* the untagged field
C16_FailedWitness ==
    /\ Called /\ typ = "Elems" /\ err # NoErr
    /\ VAL \in DOMAIN env /\ env[VAL] = <<"1">>
    /\ pre = Preset["Elems"]
    /\ cfg.VAL = <<"v">>

-----------------------------------------------------------------------------
(* env.go and getters.go: Require and the getters. A getter returns         *)
(* [val, err]; GetWithFallback returns the value alone.                     *)

\* fmt.Errorf("environment variable %s not set", key)
NotSetErr(key) == [kind |-> "environment variable not set", arg |-> key]

\* a Require that takes an empty value for a missing one
RequireNonEmpty(e, key) ==
    IF Lookup(e, key).val = <<>> THEN RequiredErr(key) ELSE NoErr

\* env.go: Require(key), the error returned
Require(e, key) ==
    IF ~Lookup(e, key).ok THEN RequiredErr(key) ELSE NoErr

Get(e, key) ==
    IF Lookup(e, key).ok THEN [val |-> Lookup(e, key).val, err |-> NoErr]
    ELSE [val |-> <<>>, err |-> NotSetErr(key)]

\* a GetWithFallback that takes an empty value for a missing one
GetWithFallbackOnEmpty(e, key, fallback) ==
    IF Get(e, key).val # <<>> THEN Get(e, key).val ELSE fallback

GetWithFallback(e, key, fallback) ==
    IF Get(e, key).err = NoErr THEN Get(e, key).val ELSE fallback

GetBool(e, key) ==
    IF Get(e, key).err # NoErr THEN [val |-> FALSE, err |-> Get(e, key).err]
    ELSE [val |-> parseBool(Get(e, key).val).b, err |-> parseBool(Get(e, key).val).err]

GetBoolWithFallback(e, key, fallback) ==
    IF GetBool(e, key).err = NoErr THEN [val |-> GetBool(e, key).val, err |-> NoErr]
    ELSE [val |-> fallback, err |-> NoErr]

GetInt(e, key) ==
    IF Get(e, key).err # NoErr THEN [val |-> 0, err |-> Get(e, key).err]
    ELSE [val |-> ParseInt("strconv.Atoi", Get(e, key).val).n,
          err |-> ParseInt("strconv.Atoi", Get(e, key).val).err]

\* a GetIntWithFallback that returns the zero value and the error of GetInt
GetIntWithFallbackError(e, key, fallback) == GetInt(e, key)

GetIntWithFallback(e, key, fallback) ==
    IF GetInt(e, key).err = NoErr THEN [val |-> GetInt(e, key).val, err |-> NoErr]
    ELSE [val |-> fallback, err |-> NoErr]

GetFloat(e, key) ==
    IF Get(e, key).err # NoErr THEN [val |-> [m |-> 0, e |-> 0], err |-> Get(e, key).err]
    ELSE [val |-> ParseFloat(Get(e, key).val).x, err |-> ParseFloat(Get(e, key).val).err]

GetFloatWithFallback(e, key, fallback) ==
    IF GetFloat(e, key).err = NoErr THEN [val |-> GetFloat(e, key).val, err |-> NoErr]
    ELSE [val |-> fallback, err |-> NoErr]

GetStringSlice(e, key) ==
    IF Get(e, key).err # NoErr THEN [val |-> <<>>, err |-> Get(e, key).err]
    ELSE [val |-> Split(Get(e, key).val, <<",">>), err |-> NoErr]

GetStringSliceWithFallback(e, key, fallback) ==
    IF GetStringSlice(e, key).err = NoErr
    THEN [val |-> GetStringSlice(e, key).val, err |-> NoErr]
    ELSE [val |-> fallback, err |-> NoErr]

GetBoolSlice(e, key) ==
    IF Get(e, key).err # NoErr THEN [val |-> <<>>, err |-> Get(e, key).err]
    ELSE parseBoolSlice(Get(e, key).val)

GetBoolSliceWithFallback(e, key, fallback) ==
    IF GetBoolSlice(e, key).err = NoErr
    THEN [val |-> GetBoolSlice(e, key).val, err |-> NoErr]
    ELSE [val |-> fallback, err |-> NoErr]

GetIntSlice(e, key) ==
    IF Get(e, key).err # NoErr THEN [val |-> <<>>, err |-> Get(e, key).err]
    ELSE parseIntSlice(Get(e, key).val)

GetIntSliceWithFallback(e, key, fallback) ==
    IF GetIntSlice(e, key).err = NoErr
    THEN [val |-> GetIntSlice(e, key).val, err |-> NoErr]
    ELSE [val |-> fallback, err |-> NoErr]

GetUintSlice(e, key) ==
    IF Get(e, key).err # NoErr THEN [val |-> <<>>, err |-> Get(e, key).err]
    ELSE parseUintSlice(Get(e, key).val)

GetUintSliceWithFallback(e, key, fallback) ==
    IF GetUintSlice(e, key).err = NoErr
    THEN [val |-> GetUintSlice(e, key).val, err |-> NoErr]
    ELSE [val |-> fallback, err |-> NoErr]

GetFloatSlice(e, key) ==
    IF Get(e, key).err # NoErr THEN [val |-> <<>>, err |-> Get(e, key).err]
    ELSE parseFloatSlice(Get(e, key).val)

GetFloatSliceWithFallback(e, key, fallback) ==
    IF GetFloatSlice(e, key).err = NoErr
    THEN [val |-> GetFloatSlice(e, key).val, err |-> NoErr]
    ELSE [val |-> fallback, err |-> NoErr]

-----------------------------------------------------------------------------
(* Calls of Set, Unset, Lookup, Require and the getters in any order.       *)

\* the keys and values of these calls, and the fallbacks passed to the getters
ApiKeys == {<<"A">>, <<"B">>}
ApiValues == {<<>>, <<"1">>, <<"x">>, <<"1", ",", "0">>, <<"1", ".", "5">>}
Fallbacks ==
    [ GetWithFallback |-> {<<"f", "b">>},
      GetBoolWithFallback |-> {TRUE, FALSE},
      GetIntWithFallback |-> {7},
      GetFloatWithFallback |-> {[m |-> 25, e |-> 1]},
      GetStringSliceWithFallback |-> {<<<<"f">>>>},
      GetBoolSliceWithFallback |-> {<<TRUE>>},
      GetIntSliceWithFallback |-> {<<7>>},
      GetUintSliceWithFallback |-> {<<7, 7>>},
      GetFloatSliceWithFallback |-> {<<[m |-> 25, e |-> 1]>>} ]

ApiInit ==
    /\ env = EmptyEnv
    /\ typ = "Config"
    /\ cfg = ZeroStruct(typ)
    /\ pre = cfg
    /\ err = NoErr
    /\ last = "Init"
    /\ trail = Idle
    /\ calls = 0
    /\ args = <<>>
    /\ ret = NoRet
    /\ recent = NoCalls
    /\ run = NoRun

\* env.go: Set(key, value), which returns no error for the keys of the model
SetCall(key, value) ==
    /\ env' = SetEnv(env, key, value)
    /\ recent' = [k \in DOMAIN recent \cup {key} |->
                    IF k = key THEN [op |-> "Set", val |-> value] ELSE recent[k]]
    /\ last' = "Set"
    /\ args' = <<key, value>>
    /\ ret' = NoErr
    /\ UNCHANGED <<typ, cfg, pre, err, trail, calls, run>>

\* env.go: Unset(key)
UnsetCall(key) ==
    /\ env' = UnsetEnv(env, key)
    /\ recent' = [k \in DOMAIN recent \cup {key} |->
                    IF k = key THEN [op |-> "Unset", val |-> <<>>] ELSE recent[k]]
    /\ last' = "Unset"
    /\ args' = <<key>>
    /\ ret' = NoErr
    /\ UNCHANGED <<typ, cfg, pre, err, trail, calls, run>>

\* a call that reads the environment
Gets(name) ==
    /\ last' = name
    /\ UNCHANGED <<env, recent, typ, cfg, pre, err, trail, calls, run>>

\* env.go: Lookup(key)
LookupCall(key) == Gets("Lookup") /\ args' = <<key>> /\ ret' = Lookup(env, key)

\* env.go: Require(key)
RequireCall(key) == Gets("Require") /\ args' = <<key>> /\ ret' = Require(env, key)

\* getters.go
GetCall(key) == Gets("Get") /\ args' = <<key>> /\ ret' = Get(env, key)

GetWithFallbackCall(key, fallback) ==
    Gets("GetWithFallback") /\ args' = <<key, fallback>>
    /\ ret' = GetWithFallback(env, key, fallback)

GetBoolCall(key) == Gets("GetBool") /\ args' = <<key>> /\ ret' = GetBool(env, key)

GetBoolWithFallbackCall(key, fallback) ==
    Gets("GetBoolWithFallback") /\ args' = <<key, fallback>>
    /\ ret' = GetBoolWithFallback(env, key, fallback)

GetIntCall(key) == Gets("GetInt") /\ args' = <<key>> /\ ret' = GetInt(env, key)

GetIntWithFallbackCall(key, fallback) ==
    Gets("GetIntWithFallback") /\ args' = <<key, fallback>>
    /\ ret' = GetIntWithFallback(env, key, fallback)

GetFloatCall(key) == Gets("GetFloat") /\ args' = <<key>> /\ ret' = GetFloat(env, key)

GetFloatWithFallbackCall(key, fallback) ==
    Gets("GetFloatWithFallback") /\ args' = <<key, fallback>>
    /\ ret' = GetFloatWithFallback(env, key, fallback)

GetStringSliceCall(key) == Gets("GetStringSlice") /\ args' = <<key>> /\ ret' = GetStringSlice(env, key)

GetStringSliceWithFallbackCall(key, fallback) ==
    Gets("GetStringSliceWithFallback") /\ args' = <<key, fallback>>
    /\ ret' = GetStringSliceWithFallback(env, key, fallback)

GetBoolSliceCall(key) == Gets("GetBoolSlice") /\ args' = <<key>> /\ ret' = GetBoolSlice(env, key)

GetBoolSliceWithFallbackCall(key, fallback) ==
    Gets("GetBoolSliceWithFallback") /\ args' = <<key, fallback>>
    /\ ret' = GetBoolSliceWithFallback(env, key, fallback)

GetIntSliceCall(key) == Gets("GetIntSlice") /\ args' = <<key>> /\ ret' = GetIntSlice(env, key)

GetIntSliceWithFallbackCall(key, fallback) ==
    Gets("GetIntSliceWithFallback") /\ args' = <<key, fallback>>
    /\ ret' = GetIntSliceWithFallback(env, key, fallback)

GetUintSliceCall(key) == Gets("GetUintSlice") /\ args' = <<key>> /\ ret' = GetUintSlice(env, key)

GetUintSliceWithFallbackCall(key, fallback) ==
    Gets("GetUintSliceWithFallback") /\ args' = <<key, fallback>>
    /\ ret' = GetUintSliceWithFallback(env, key, fallback)

GetFloatSliceCall(key) == Gets("GetFloatSlice") /\ args' = <<key>> /\ ret' = GetFloatSlice(env, key)

GetFloatSliceWithFallbackCall(key, fallback) ==
    Gets("GetFloatSliceWithFallback") /\ args' = <<key, fallback>>
    /\ ret' = GetFloatSliceWithFallback(env, key, fallback)

ApiNext ==
    \/ \E key \in ApiKeys : \E value \in ApiValues : SetCall(key, value)
    \/ \E key \in ApiKeys : UnsetCall(key)
    \/ \E key \in ApiKeys : LookupCall(key)
    \/ \E key \in ApiKeys : RequireCall(key)
    \/ \E key \in ApiKeys : GetCall(key)
    \/ \E key \in ApiKeys : \E fallback \in Fallbacks.GetWithFallback : GetWithFallbackCall(key, fallback)
    \/ \E key \in ApiKeys : GetBoolCall(key)
    \/ \E key \in ApiKeys : \E fallback \in Fallbacks.GetBoolWithFallback : GetBoolWithFallbackCall(key, fallback)
    \/ \E key \in ApiKeys : GetIntCall(key)
    \/ \E key \in ApiKeys : \E fallback \in Fallbacks.GetIntWithFallback : GetIntWithFallbackCall(key, fallback)
    \/ \E key \in ApiKeys : GetFloatCall(key)
    \/ \E key \in ApiKeys : \E fallback \in Fallbacks.GetFloatWithFallback : GetFloatWithFallbackCall(key, fallback)
    \/ \E key \in ApiKeys : GetStringSliceCall(key)
    \/ \E key \in ApiKeys : \E fallback \in Fallbacks.GetStringSliceWithFallback : GetStringSliceWithFallbackCall(key, fallback)
    \/ \E key \in ApiKeys : GetBoolSliceCall(key)
    \/ \E key \in ApiKeys : \E fallback \in Fallbacks.GetBoolSliceWithFallback : GetBoolSliceWithFallbackCall(key, fallback)
    \/ \E key \in ApiKeys : GetIntSliceCall(key)
    \/ \E key \in ApiKeys : \E fallback \in Fallbacks.GetIntSliceWithFallback : GetIntSliceWithFallbackCall(key, fallback)
    \/ \E key \in ApiKeys : GetUintSliceCall(key)
    \/ \E key \in ApiKeys : \E fallback \in Fallbacks.GetUintSliceWithFallback : GetUintSliceWithFallbackCall(key, fallback)
    \/ \E key \in ApiKeys : GetFloatSliceCall(key)
    \/ \E key \in ApiKeys : \E fallback \in Fallbacks.GetFloatSliceWithFallback : GetFloatSliceWithFallbackCall(key, fallback)

ApiSpec == ApiInit /\ [][ApiNext]_vars

-----------------------------------------------------------------------------
(* The environment and the getters.                                         *)

\* the latest call on the key was Set, and the value it set
LastSet(k) == k \in DOMAIN recent /\ recent[k].op = "Set"
LastUnset(k) == k \in DOMAIN recent /\ recent[k].op = "Unset"

\* C17: after any sequence of Set and Unset calls, Lookup(k) returns (v, true)
\* when the latest call on k was Set(k, v), and reports k absent when it was
\* Unset(k) or when there was no call on k; the calls on other keys do not
\* matter.
C17_LookupAfterSetUnset ==
    /\ \A k \in ApiKeys :
         Lookup(env, k) = IF LastSet(k) THEN [val |-> recent[k].val, ok |-> TRUE]
                          ELSE [val |-> <<>>, ok |-> FALSE]
    /\ last = "Lookup"
         => ret = IF LastSet(args[1]) THEN [val |-> recent[args[1]].val, ok |-> TRUE]
                  ELSE [val |-> <<>>, ok |-> FALSE]

\* Lookup of a key that was set, after the other key was set and unset
C17_Witness ==
    /\ last = "Lookup"
    /\ args = << <<"A">> >>
    /\ LastSet(<<"A">>) /\ recent[<<"A">>].val = <<"x">>
    /\ LastUnset(<<"B">>)
    /\ ret = [val |-> <<"x">>, ok |-> TRUE]

\* Lookup of a key that was set and then unset
C17_UnsetWitness ==
    /\ last = "Lookup"
    /\ LastUnset(args[1])
    /\ ret = [val |-> <<>>, ok |-> FALSE]

\* C18: Require(key) returns an error that names the key exactly when the key
\* is absent: before the key is set and after Unset(key); after Set(key, v)
\* it returns no error, also for the empty v.
C18_Require ==
    last = "Require"
    => ret = IF LastSet(args[1]) THEN NoErr
             ELSE [kind |-> "required environment variable is not set", arg |-> args[1]]

\* Require of a key that was set to the empty string
C18_Witness ==
    /\ last = "Require"
    /\ LastSet(args[1]) /\ recent[args[1]].val = <<>>
    /\ ret = NoErr

\* Require of a key that was set and then unset
C18_UnsetWitness ==
    /\ last = "Require"
    /\ LastUnset(args[1])
    /\ ret.arg = args[1] /\ ret # NoErr

\* C19: GetWithFallback(key, fb) returns the value of key whenever key is
\* present, the empty value included, and fb only when key is absent.
C19_GetWithFallback ==
    last = "GetWithFallback"
    => ret = IF args[1] \in DOMAIN env THEN env[args[1]] ELSE args[2]

\* the key held the empty string, which was returned instead of the fallback
C19_Witness ==
    /\ last = "GetWithFallback"
    /\ args[1] \in DOMAIN env /\ env[args[1]] = <<>>
    /\ args[2] # <<>>
    /\ ret = <<>>

\* the key was absent and the fallback was returned
C19_AbsentWitness ==
    /\ last = "GetWithFallback"
    /\ args[1] \notin DOMAIN env
    /\ ret = args[2] /\ ret # <<>>

\* the value of a present variable parsed as the getter of that name parses
\* it, as [val, err]
ParsedBy(name, value) ==
    CASE name = "GetBoolWithFallback" ->
           [val |-> parseBool(value).b, err |-> parseBool(value).err]
      [] name = "GetIntWithFallback" ->
           [val |-> ParseInt("strconv.Atoi", value).n,
            err |-> ParseInt("strconv.Atoi", value).err]
      [] name = "GetFloatWithFallback" ->
           [val |-> ParseFloat(value).x, err |-> ParseFloat(value).err]
      [] name = "GetStringSliceWithFallback" ->
           [val |-> [i \in 1..(Len(Cuts(value)) - 1) |-> PartOf(value, i)], err |-> NoErr]
      [] name = "GetBoolSliceWithFallback" -> parseBoolSlice(value)
      [] name = "GetIntSliceWithFallback" -> parseIntSlice(value)
      [] name = "GetUintSliceWithFallback" -> parseUintSlice(value)
      [] name = "GetFloatSliceWithFallback" -> parseFloatSlice(value)

TypedGetters ==
    {"GetBoolWithFallback", "GetIntWithFallback", "GetFloatWithFallback",
     "GetStringSliceWithFallback", "GetBoolSliceWithFallback",
     "GetIntSliceWithFallback", "GetUintSliceWithFallback",
     "GetFloatSliceWithFallback"}

\* C20: every typed getter with fallback returns the parsed value of the
\* variable when it is set and parses, the caller's fallback when it is not
\* set or does not parse, and never an error.
C20_TypedGettersWithFallback ==
    last \in TypedGetters
    => /\ ret.err = NoErr
       /\ ret.val = IF /\ args[1] \in DOMAIN env
                       /\ ParsedBy(last, env[args[1]]).err = NoErr
                    THEN ParsedBy(last, env[args[1]]).val
                    ELSE args[2]

\* the variable was set to a value that is no integer, and GetIntWithFallback
\* returned the fallback and no error
C20_Witness ==
    /\ last = "GetIntWithFallback"
    /\ args[1] \in DOMAIN env /\ env[args[1]] = <<"x">>
    /\ ret = [val |-> 7, err |-> NoErr]

\* the variable was set to 1,0 and GetBoolSliceWithFallback returned the
\* parsed slice
C20_ParsedWitness ==
    /\ last = "GetBoolSliceWithFallback"
    /\ args[1] \in DOMAIN env /\ env[args[1]] = <<"1", ",", "0">>
    /\ ret = [val |-> <<TRUE, FALSE>>, err |-> NoErr]

-----------------------------------------------------------------------------
(* The text of the required-variable error.                                 *)

\* the first key that a tag declares, as written: the tag up to its first
\* '|' or ','
FirstDeclaredKey(tag) ==
    IF {i \in DOMAIN tag : tag[i] \in {",", "|"}} = {} THEN tag
    ELSE SubSeq(tag, 1, Min({i \in DOMAIN tag : tag[i] \in {",", "|"}}) - 1)

\* C21: the required-variable error of Unmarshal is "required environment
\* variable K is not set" with K the first key declared in the tag of the
\* field that failed, as written in the tag: the first of the alternative
\* keys, and without the prefix of the nested struct under which the keys of
\* the field were looked up.
C21_RequiredErrorNamesFirstKey ==
    Called =>
      /\ \A k \in DOMAIN Leaves :
           RequiredEmpty(Leaves[k]) /\ EarlierFine(k)
             => err = [kind |-> "required environment variable is not set",
                       arg |-> FirstDeclaredKey(Leaves[k].fd.tag)]
      /\ err.kind = "required environment variable is not set"
           => \E k \in DOMAIN Leaves :
                /\ RequiredEmpty(Leaves[k])
                /\ err.arg = FirstDeclaredKey(Leaves[k].fd.tag)

\* the required field Name of the struct nested under the tag P, looked up
\* as P_NAME and P_ALIAS, failed with the error that names NAME
C21_Witness ==
    /\ Called /\ typ = "Service"
    /\ <<"P", "_", "N", "A", "M", "E">> \notin DOMAIN env
    /\ err.kind = "required environment variable is not set"
    /\ err.arg = NAME

\* the field tagged NAME|ALIAS failed on the empty value of ALIAS, its only
\* present key, with the error that names NAME
C21_AlternativeWitness ==
    /\ Called /\ typ = "RequiredConfig"
    /\ NAME \notin DOMAIN env
    /\ ALIAS \in DOMAIN env /\ env[ALIAS] = <<>>
    /\ err.kind = "required environment variable is not set"
    /\ err.arg = NAME

-----------------------------------------------------------------------------
(* Expansion: where the default of an absent variable is searched.          *)

\* the value that an expanding field expands: that of its first present key,
\* the tag default without one
SourceValue(l) ==
    IF PresentIn(env, l) = {} THEN l.opts.fallback ELSE FirstValue(env, l)

\* the placeholders of a value
PlaceholdersOf(s) ==
    {findAllPlaceholders(s, 1)[i] : i \in DOMAIN findAllPlaceholders(s, 1)}

\* a value without '$'
Literal(s) == \A i \in DOMAIN s : s[i] # "$"

\* a value in which no placeholder is written inside another one
Apart(s) ==
    \A m1, m2 \in PlaceholdersOf(s) : m1.text # m2.text => ~Contains(m2.text, m1.text)

\* such a value whose placeholders all stand for values without '$':
\* replacing them one after the other is replacing them at once
Separate(s) ==
    /\ \A m \in PlaceholdersOf(s) : Literal(PlaceholderValue(m.name))
    /\ Apart(s)

\* the case of C22 for the k-th field: an expanding field that Unmarshal gets
\* past, whose value names a variable that is absent from the environment
AbsentReference(k) ==
    /\ Tagged(Leaves[k])
    /\ Leaves[k].opts.expand
    /\ ~Leaves[k].opts.file
    /\ EarlierFine(k + 1)
    /\ Separate(SourceValue(Leaves[k]))
    /\ \E m \in PlaceholdersOf(SourceValue(Leaves[k])) : m.name \notin DOMAIN env

\* C22: an expanding field whose value references a variable NAME that is
\* absent from the environment gets, for that placeholder, the declared
\* default of the first field of the whole struct passed to Unmarshal (nested
\* structs included) whose first key is NAME, wherever the expanding field is
\* declared, also inside a nested struct.
C22_DefaultFromWholeStruct ==
    Called =>
      \A k \in DOMAIN Leaves :
        AbsentReference(k)
          => FieldAt(cfg, Leaves[k].path)
               = Coerced(Leaves[k], FieldAt(pre, Leaves[k].path),
                         Substituted(SourceValue(Leaves[k]), 1))

\* the same for the expanding fields declared in the struct passed to
\* Unmarshal itself: the defaults of its own fields and of the fields of its
\* nested structs are found
C22_DefaultFromOwnStruct ==
    Called =>
      \A k \in DOMAIN Leaves :
        AbsentReference(k) /\ Len(Leaves[k].path) = 1
          => FieldAt(cfg, Leaves[k].path)
               = Coerced(Leaves[k], FieldAt(pre, Leaves[k].path),
                         Substituted(SourceValue(Leaves[k]), 1))

\* Mode, declared in the struct passed to Unmarshal with the default ${PORT},
\* received the default 80 that the nested struct declares for PORT
C22_OwnStructWitness ==
    /\ Called /\ typ = "Service"
    /\ AbsentReference(2)
    /\ cfg.Mode = <<"8", "0">>

\* Addr, declared in the nested struct with the default ${HOST}:${PORT},
\* received the default of PORT, declared next to it, and nothing for HOST,
\* whose default the enclosing struct declares and its field Host received
C22_NestedWitness ==
    /\ Called /\ typ = "Service"
    /\ HOST \notin DOMAIN env
    /\ cfg.Host = <<"l", "o", "c", "a", "l", "h", "o", "s", "t">>
    /\ cfg.In.Addr = <<":", "8", "0">>

-----------------------------------------------------------------------------
(* Expansion: text that was substituted.                                    *)

\* the case of C23 for the k-th field: an expanding field that Unmarshal gets
\* past, with a placeholder whose value contains the text of a placeholder
SubstitutedPlaceholder(k) ==
    /\ Tagged(Leaves[k])
    /\ Leaves[k].opts.expand
    /\ ~Leaves[k].opts.file
    /\ EarlierFine(k + 1)
    /\ Apart(SourceValue(Leaves[k]))
    /\ \E m \in PlaceholdersOf(SourceValue(Leaves[k])) :
         PlaceholdersOf(PlaceholderValue(m.name)) # {}

\* the placeholders of the value of the k-th field occur in none of the
\* values substituted for them
FreshText(k) ==
    \A m1, m2 \in PlaceholdersOf(SourceValue(Leaves[k])) :
      ~Contains(PlaceholderValue(m1.name), m2.text)

\* C23: expansion does not expand again what it substituted: when the value
\* substituted for a placeholder contains the text of a placeholder, that
\* text is in the result as it is, whether or not the expanded value has that
\* placeholder too.
C23_NoReexpansion ==
    Called =>
      \A k \in DOMAIN Leaves :
        SubstitutedPlaceholder(k)
          => FieldAt(cfg, Leaves[k].path)
               = Coerced(Leaves[k], FieldAt(pre, Leaves[k].path),
                         Substituted(SourceValue(Leaves[k]), 1))

\* the same when the expanded value has none of the placeholders that the
\* substituted values contain
C23_FreshTextLiteral ==
    Called =>
      \A k \in DOMAIN Leaves :
        SubstitutedPlaceholder(k) /\ FreshText(k)
          => FieldAt(cfg, Leaves[k].path)
               = Coerced(Leaves[k], FieldAt(pre, Leaves[k].path),
                         Substituted(SourceValue(Leaves[k]), 1))

\* the value ${MODE} of HOST was substituted into ${HOST}:${PORT}, which has
\* no placeholder ${MODE}, and is in the result as it is
C23_FreshWitness ==
    /\ Called /\ typ = "Service"
    /\ HOST \in DOMAIN env /\ env[HOST] = <<"$", "{", "M", "O", "D", "E", "}">>
    /\ SubstitutedPlaceholder(3) /\ FreshText(3)
    /\ cfg.In.Addr = <<"$", "{", "M", "O", "D", "E", "}", ":", "8", "0">>

\* the value ${PORT} of HOST was substituted into ${HOST}:${PORT} and was
\* then replaced with the placeholder ${PORT} that follows
C23_ReexpandedWitness ==
    /\ Called /\ typ = "ExpandConfig"
    /\ DOMAIN env = {HOST} /\ env[HOST] = <<"$", "{", "P", "O", "R", "T", "}">>
    /\ SubstitutedPlaceholder(2)
    /\ cfg.Addr = <<":">>

-----------------------------------------------------------------------------
(* Expansion: a name that begins with another name.                         *)

\* the case of C24 for the k-th field: an expanding field that Unmarshal gets
\* past, whose value has two $NAME placeholders, the name of one beginning
\* with the name of the other, and whose placeholders stand for values
\* without '$'
NamePrefix(k) ==
    /\ Tagged(Leaves[k])
    /\ Leaves[k].opts.expand
    /\ ~Leaves[k].opts.file
    /\ EarlierFine(k + 1)
    /\ \A m \in PlaceholdersOf(SourceValue(Leaves[k])) : Literal(PlaceholderValue(m.name))
    /\ \E m1, m2 \in PlaceholdersOf(SourceValue(Leaves[k])) :
         /\ m1.text = <<"$">> \o m1.name
         /\ m2.text = <<"$">> \o m2.name
         /\ m1.name # m2.name
         /\ HasPrefixAt(m2.name, 1, m1.name)

\* C24: the result of expandVariables is the value with every placeholder
\* replaced, all at once, by the value of the variable it names: of two $NAME
\* placeholders, the name of one beginning with the name of the other, each
\* is replaced by the value of its own variable, and the text around the
\* placeholders is kept.
C24_EachItsOwnVariable ==
    Called =>
      \A k \in DOMAIN Leaves :
        NamePrefix(k)
          => FieldAt(cfg, Leaves[k].path)
               = Coerced(Leaves[k], FieldAt(pre, Leaves[k].path),
                         Substituted(SourceValue(Leaves[k]), 1))

\* in $HOST:$HOSTNAME the value h of HOST was written over the first five
\* characters of $HOSTNAME, a variable that is absent and has no default
C24_OverwrittenWitness ==
    /\ Called /\ typ = "ExpandConfig"
    /\ DOMAIN env = {HOST, ADDR}
    /\ env[HOST] = <<"h">> /\ env[ADDR] = <<"$", "H", "O", "S", "T", ":", "$", "H", "O", "S", "T", "N", "A", "M", "E">>
    /\ NamePrefix(2)
    /\ Substituted(env[ADDR], 1) = <<"h", ":">>
    /\ cfg.Addr = <<"h", ":", "h", "N", "A", "M", "E">>

-----------------------------------------------------------------------------
(* Tags without options.                                                    *)

\* the pieces of s between the occurrences of the character c: where they
\* are cut, and the i-th of them
CutsAt(s, c) ==
    <<0>> \o Ascending({j \in DOMAIN s : s[j] = c}) \o <<Len(s) + 1>>
Piece(s, c, i) == SubSeq(s, CutsAt(s, c)[i] + 1, CutsAt(s, c)[i + 1] - 1)
Pieces(s, c) == [i \in 1..(Len(CutsAt(s, c)) - 1) |-> Piece(s, c, i)]

\* C25: for a tag without a comma, the empty tag included, parseTag returns
\* the pieces of the tag between the '|' as the keys, in their order, the
\* empty fallback, and required, file and expand all false.
C25_TagWithoutOptions ==
    (Returned("parseTag") /\ \A i \in DOMAIN args[1] : args[1][i] # ",")
    => ret = [keys |-> Pieces(args[1], "|"), fallback |-> <<>>,
              required |-> FALSE, file |-> FALSE, expand |-> FALSE]

\* the tag A|B|C gave the three keys
C25_Witness ==
    /\ Returned("parseTag")
    /\ args[1] = <<"A", "|", "B", "|", "C">>
    /\ ret.keys = <<<<"A">>, <<"B">>, <<"C">>>>

\* the empty tag gave the empty key alone
C25_EmptyWitness ==
    /\ Returned("parseTag")
    /\ args[1] = <<>>
    /\ ret.keys = <<<<>>>>
    /\ ret.fallback = <<>>

-----------------------------------------------------------------------------
(* The option list: splitting on commas and brackets.                       *)

\* the options of a tag: what follows its first comma
OptionList(tag) == SubSeq(tag, Index(tag, <<",">>) + 1, Len(tag))

\* the number of brackets that are open before index i of s
DepthAt(s, i) ==
    Cardinality({j \in 1..(i - 1) : s[j] = "["})
      - Cardinality({j \in 1..(i - 1) : s[j] = "]"})

\* the segments of an option list: its pieces between the commas that are
\* inside no bracket, at any depth
TopCuts(s) ==
    <<0>> \o Ascending({j \in DOMAIN s : s[j] = "," /\ DepthAt(s, j) <= 0})
      \o <<Len(s) + 1>>
TopSegments(s) ==
    [i \in 1..(Len(TopCuts(s)) - 1) |->
       SubSeq(s, TopCuts(s)[i] + 1, TopCuts(s)[i + 1] - 1)]

\* the options that a sequence of segments sets, each segment read by
\* parsePart, from the i-th on
RECURSIVE OptionsOf(_, _, _)
OptionsOf(segs, i, o) ==
    IF i > Len(segs) THEN o ELSE OptionsOf(segs, i + 1, parsePart(segs[i], o))

\* what parseTag returns for a tag with the segments segs
TagOptionsOf(tag, segs) ==
    [keys |-> Pieces(SubSeq(tag, 1, Index(tag, <<",">>) - 1), "|"),
     fallback |-> OptionsOf(segs, 1, [fallback |-> <<>>, required |-> FALSE,
                                     file |-> FALSE, expand |-> FALSE]).fallback,
     required |-> OptionsOf(segs, 1, [fallback |-> <<>>, required |-> FALSE,
                                     file |-> FALSE, expand |-> FALSE]).required,
     file |-> OptionsOf(segs, 1, [fallback |-> <<>>, required |-> FALSE,
                                 file |-> FALSE, expand |-> FALSE]).file,
     expand |-> OptionsOf(segs, 1, [fallback |-> <<>>, required |-> FALSE,
                                   file |-> FALSE, expand |-> FALSE]).expand]

HasOptions(tag) == Contains(tag, <<",">>)

\* a bracket is opened inside a bracket of the tag
NestedBrackets(tag) == \E i \in DOMAIN tag : tag[i] = "[" /\ DepthAt(tag, i) >= 1

\* C26: parseTag splits the option list on the commas that are inside no
\* bracket, whatever the depth of the brackets: what it returns is what the
\* segments between those commas set, so that a default in nested brackets
\* followed by further options is one segment and the options after it are
\* recognised.
C26_SplitHonoursNesting ==
    (Returned("parseTag") /\ HasOptions(args[1]))
    => ret = TagOptionsOf(args[1], TopSegments(OptionList(args[1])))

\* the same for the tags without a bracket inside a bracket
C26_SplitOutsideBrackets ==
    (Returned("parseTag") /\ HasOptions(args[1]) /\ ~NestedBrackets(args[1]))
    => ret = TagOptionsOf(args[1], TopSegments(OptionList(args[1])))

\* default=[a,b,c] followed by file and expand is one segment, and the two
\* options after it were recognised
C26_FlatWitness ==
    /\ Returned("parseTag")
    /\ args[1] = <<"A", "|", "B", ",", "f", "a", "l", "l", "b", "a", "c", "k", "=", "[", "a", ",", "b", ",", "c", "]", ",", "r", "e", "q", "u", "i", "r", "e", "d", ",", "f", "i", "l", "e", ",", "e", "x", "p", "a", "n", "d">>
    /\ Len(TopSegments(OptionList(args[1]))) = 4
    /\ ret.fallback = <<"a", ",", "b", ",", "c">>
    /\ ret.file /\ ret.expand

\* the word required inside the brackets of default=[[b],required,c] was
\* read as the option
C26_CutWitness ==
    /\ Returned("parseTag")
    /\ args[1] = <<"K", ",", "d", "e", "f", "a", "u", "l", "t", "=", "[", "[", "b", "]", ",", "r", "e", "q", "u", "i", "r", "e", "d", ",", "c", "]">>
    /\ Len(TopSegments(OptionList(args[1]))) = 1
    /\ ret.required
    /\ ret.fallback = <<"[", "b">>

-----------------------------------------------------------------------------
(* Options: default and fallback, the order of the options.                 *)

\* a segment default=X or fallback=X, and one of the three option words
IsDefault(seg) == HasPrefixAt(seg, 1, DefaultEq) \/ HasPrefixAt(seg, 1, FallbackEq)
IsOption(seg) == IsDefault(seg) \/ TrimSpace(seg) \in {RequiredWord, FileWord, ExpandWord}

\* the segments of a tag, and the tag with other segments in their place
SegmentsOf(tag) == TopSegments(OptionList(tag))
WithSegments(tag, segs) == SubSeq(tag, 1, Index(tag, <<",">>) - 1) \o JoinSegments(segs)

\* a tag whose segments are all options, at most one of them a default or
\* fallback
OnlyOptions(tag) ==
    /\ HasOptions(tag)
    /\ \A i \in DOMAIN SegmentsOf(tag) : IsOption(SegmentsOf(tag)[i])
    /\ Cardinality({i \in DOMAIN SegmentsOf(tag) : IsDefault(SegmentsOf(tag)[i])}) <= 1

\* default=X for fallback=X and fallback=X for default=X
OtherWord(seg) ==
    IF HasPrefixAt(seg, 1, DefaultEq)
    THEN FallbackEq \o SubSeq(seg, Len(DefaultEq) + 1, Len(seg))
    ELSE IF HasPrefixAt(seg, 1, FallbackEq)
    THEN DefaultEq \o SubSeq(seg, Len(FallbackEq) + 1, Len(seg))
    ELSE seg

\* the value X of a segment default=X or fallback=X
ValueOf(seg) ==
    IF HasPrefixAt(seg, 1, DefaultEq) THEN SubSeq(seg, Len(DefaultEq) + 1, Len(seg))
    ELSE SubSeq(seg, Len(FallbackEq) + 1, Len(seg))

\* C27: for a tag whose segments are options, at most one of them a default
\* or fallback, parseTag returns the same with fallback=X written for
\* default=X (and default=X for fallback=X) and with the segments in any
\* other order; and a default whose value is the word required, file or
\* expand is the fallback and sets that flag only if the word is an option of
\* the tag as well.
C27_SynonymsAndOrder ==
    (Returned("parseTag") /\ OnlyOptions(args[1]))
    => /\ parseTag(WithSegments(args[1], [i \in DOMAIN SegmentsOf(args[1]) |->
                                            OtherWord(SegmentsOf(args[1])[i])])) = ret
       /\ \A p \in Permutations(DOMAIN SegmentsOf(args[1])) :
            parseTag(WithSegments(args[1], [i \in DOMAIN SegmentsOf(args[1]) |->
                                             SegmentsOf(args[1])[p[i]]])) = ret
       /\ \A i \in DOMAIN SegmentsOf(args[1]) :
            ( /\ IsDefault(SegmentsOf(args[1])[i])
              /\ ValueOf(SegmentsOf(args[1])[i]) \in {RequiredWord, FileWord, ExpandWord} )
            => /\ ret.fallback = ValueOf(SegmentsOf(args[1])[i])
               /\ ret.required = \E j \in DOMAIN SegmentsOf(args[1]) :
                                   TrimSpace(SegmentsOf(args[1])[j]) = RequiredWord
               /\ ret.file = \E j \in DOMAIN SegmentsOf(args[1]) :
                               TrimSpace(SegmentsOf(args[1])[j]) = FileWord
               /\ ret.expand = \E j \in DOMAIN SegmentsOf(args[1]) :
                                 TrimSpace(SegmentsOf(args[1])[j]) = ExpandWord

\* a tag with a fallback between options: five segments, the fallback in
\* brackets
C27_Witness ==
    /\ Returned("parseTag")
    /\ args[1] = <<"A", "|", "B", ",", "f", "i", "l", "e", ",", "f", "a", "l", "l", "b", "a", "c", "k", "=", "[", "a", ",", " ", "b", "]", ",", "r", "e", "q", "u", "i", "r", "e", "d", ",", "f", "i", "l", "e", ",", "e", "x", "p", "a", "n", "d">>
    /\ OnlyOptions(args[1])
    /\ Len(SegmentsOf(args[1])) = 5
    /\ ret.fallback = <<"a", ",", " ", "b">>
    /\ ret.required /\ ret.file /\ ret.expand

\* default=required alone gave the fallback required and no flag
C27_WordWitness ==
    /\ Returned("parseTag")
    /\ args[1] = <<"K", ",", "d", "e", "f", "a", "u", "l", "t", "=", "r", "e", "q", "u", "i", "r", "e", "d">>
    /\ ret.fallback = <<"r", "e", "q", "u", "i", "r", "e", "d">>
    /\ ~ret.required

-----------------------------------------------------------------------------
(* Segments that are no option.                                             *)

\* the segments of a tag that are options, in their order
OptionSegments(tag) == SelectSeq(SegmentsOf(tag), IsOption)

\* a tag with a segment that is no option
HasOtherSegment(tag) ==
    /\ HasOptions(tag)
    /\ \E i \in DOMAIN SegmentsOf(tag) : ~IsOption(SegmentsOf(tag)[i])

\* C28: a segment that is none of default=..., fallback=..., required, file
\* and expand is ignored: parseTag returns for the tag the keys, the
\* fallback and the flags that it returns for the tag without that segment.
C28_OtherSegmentsIgnored ==
    (Returned("parseTag") /\ HasOtherSegment(args[1]))
    => ret = parseTag(WithSegments(args[1], OptionSegments(args[1])))

\* the same for the segments that contain neither default= nor fallback=
C28_PlainSegmentsIgnored ==
    ( /\ Returned("parseTag")
      /\ HasOtherSegment(args[1])
      /\ \A i \in DOMAIN SegmentsOf(args[1]) :
           IsOption(SegmentsOf(args[1])[i])
             \/ ( /\ ~Contains(SegmentsOf(args[1])[i], DefaultEq)
                  /\ ~Contains(SegmentsOf(args[1])[i], FallbackEq) ) )
    => ret = parseTag(WithSegments(args[1], OptionSegments(args[1])))

\* prefix=x before a default and an option changed nothing
C28_PlainWitness ==
    /\ Returned("parseTag")
    /\ args[1] = <<"K", ",", "p", "r", "e", "f", "i", "x", "=", "x", ",", "d", "e", "f", "a", "u", "l", "t", "=", "a", ",", "r", "e", "q", "u", "i", "r", "e", "d">>
    /\ ret = parseTag(<<"K", ",", "d", "e", "f", "a", "u", "l", "t", "=", "a", ",", "r", "e", "q", "u", "i", "r", "e", "d">>)
    /\ ret.fallback = <<"a">> /\ ret.required

\* nodefault=1 alone became the fallback 1
C28_FallbackWitness ==
    /\ Returned("parseTag")
    /\ args[1] = <<"K", ",", "n", "o", "d", "e", "f", "a", "u", "l", "t", "=", "1">>
    /\ ret.fallback = <<"1">>

-----------------------------------------------------------------------------
(* Slices written out and read back.                                        *)

\* the decimal digits of a natural number, and strconv.Itoa
RECURSIVE DigitsOf(_)
DigitsOf(n) ==
    IF n < 10 THEN <<Digits[n + 1]>> ELSE DigitsOf(n \div 10) \o <<Digits[(n % 10) + 1]>>
FormatInt(n) == IF n < 0 THEN <<"-">> \o DigitsOf(0 - n) ELSE DigitsOf(n)

\* strconv.FormatBool
FormatBool(b) == IF b THEN <<"t", "r", "u", "e">> ELSE <<"f", "a", "l", "s", "e">>

\* the digits of a natural number, with zeros in front up to the length len
RECURSIVE Padded(_, _)
Padded(ds, len) == IF Len(ds) >= len THEN ds ELSE Padded(<<"0">> \o ds, len)

\* strconv.FormatFloat(x, 'f', -1, 64) of the float m / 10^e: the digits
\* with the point before the last e of them
FormatFloat(x) ==
    LET ds == Padded(DigitsOf(IF x.m < 0 THEN 0 - x.m ELSE x.m), x.e + 1)
        sign == IF x.m < 0 THEN <<"-">> ELSE <<>>
    IN  IF x.e = 0 THEN sign \o ds
        ELSE sign \o SubSeq(ds, 1, Len(ds) - x.e) \o <<".">>
               \o SubSeq(ds, Len(ds) - x.e + 1, Len(ds))

FormatElement(of, x) ==
    IF of = "int" THEN FormatInt(x)
    ELSE IF of = "bool" THEN FormatBool(x)
    ELSE FormatFloat(x)

\* the elements of a slice written out and joined with ','; the empty slice
\* is the empty string
RECURSIVE Rendered(_, _)
Rendered(of, s) ==
    IF s = <<>> THEN <<>>
    ELSE IF Len(s) = 1 THEN FormatElement(of, s[1])
    ELSE FormatElement(of, s[1]) \o <<",">> \o Rendered(of, Tail(s))

\* the slices that are written out: up to MaxSlice elements of each kind
MaxSlice == 3
SliceElements ==
    [int |-> {0 - 2, 0 - 1, 0, 1, 2, 3},
     bool |-> {TRUE, FALSE},
     float64 |-> {[m |-> 15, e |-> 1], [m |-> 2, e |-> 0], [m |-> 0 - 5, e |-> 1],
                  [m |-> 5, e |-> 1], [m |-> 0, e |-> 0]}]
SlicesOf(of) == UNION {[1..n -> SliceElements[of]] : n \in 0..MaxSlice}

\* setField was called on a slice field of ints, bools or floats
RoundTripCase ==
    /\ Returned("setField")
    /\ args[1].kind = "slice"
    /\ args[1].of \in DOMAIN SliceElements

\* C29 as stated: for every slice s of ints, bools or floats, the empty one
\* included, setField called on a slice field of that element kind with the
\* elements of s written out and joined with ',' returns no error and leaves
\* the field equal to s.
C29_RoundTrip ==
    RoundTripCase =>
      \A s \in SlicesOf(args[1].of) :
        args[3] = Rendered(args[1].of, s) => ret = [val |-> s, err |-> NoErr]

\* C29, amended: the same for every slice s that is not empty; for the empty
\* slice, written out as the empty string, setField returns no error and
\* leaves the field as it was.
C29_RoundTripNonEmpty ==
    RoundTripCase =>
      \A s \in SlicesOf(args[1].of) :
        args[3] = Rendered(args[1].of, s)
          => ret = [val |-> IF s = <<>> THEN args[2] ELSE s, err |-> NoErr]

\* the ints 1, -2 written out as 1,-2 and read back into a field that held
\* another slice
C29_Witness ==
    /\ RoundTripCase
    /\ args[1].of = "int"
    /\ args[2] = <<5>>
    /\ args[3] = Rendered("int", <<1, 0 - 2>>)
    /\ ret.val = <<1, 0 - 2>>

\* the floats -0.5, 2 and the bools false, true, true read back
C29_FloatWitness ==
    /\ RoundTripCase
    /\ args[1].of = "float64"
    /\ args[3] = Rendered("float64", <<[m |-> 0 - 5, e |-> 1], [m |-> 2, e |-> 0]>>)
    /\ ret.val = <<[m |-> 0 - 5, e |-> 1], [m |-> 2, e |-> 0]>>

C29_BoolWitness ==
    /\ RoundTripCase
    /\ args[1].of = "bool"
    /\ args[3] = Rendered("bool", <<FALSE, TRUE, TRUE>>)
    /\ ret.val = <<FALSE, TRUE, TRUE>>

\* the empty slice written out as the empty string left the slice that the
\* field held
C29_EmptyWitness ==
    /\ RoundTripCase
    /\ args[2] # <<>>
    /\ args[3] = Rendered(args[1].of, <<>>)
    /\ ret.val = args[2]

-----------------------------------------------------------------------------
(* Unmarshal calls that run at the same time, each in its own goroutine on  *)
(* its own struct, in an environment that no Set or Unset call changes      *)
(* while they run. A call is [typ, start, data, stack, err, done]: the      *)
(* struct it was called on, of type typ, as it was (start) and as it is     *)
(* (data), the error it returned once it is done, and its stack of          *)
(* unmarshalWithPrefix calls, each [T, path, prefix, i]: the type of the    *)
(* struct it walks, where that struct is in data, its prefix, and the index *)
(* of its loop.                                                             *)

Goroutines == {1, 2}

\* the struct v with the field at a path of field names set to x
RECURSIVE SetAt(_, _, _)
SetAt(v, path, x) ==
    IF Len(path) = 1 THEN [v EXCEPT ![path[1]] = x]
    ELSE [v EXCEPT ![Head(path)] = SetAt(v[Head(path)], Tail(path), x)]

\* unmarshalWithPrefix(data, prefix) entered, data pointing to a struct of
\* type T at path
Frame(T, path, prefix) == [T |-> T, path |-> path, prefix |-> prefix, i |-> 1]

\* Unmarshal(&v) entered, v of type T
Started(T, v) ==
    [typ |-> T, start |-> v, data |-> v, stack |-> <<Frame(T, <<>>, <<>>)>>,
     err |-> NoErr, done |-> FALSE]

\* one struct for all the calls on structs of one type: that of the first
\* goroutine
targetOfFirst(r, g) == IF r[g].typ = r[1].typ THEN r[1].data ELSE r[g].data

\* the struct that the call of goroutine g reads and writes: its own
targetOf(r, g) == r[g].data

\* the callers of the innermost unmarshalWithPrefix call, its loop index
\* moved to the next field
Callers(c) == SubSeq(c.stack, 1, Len(c.stack) - 1)
Advanced(c) ==
    Append(Callers(c), [c.stack[Len(c.stack)] EXCEPT !.i = c.stack[Len(c.stack)].i + 1])

\* unmarshalWithPrefix, lines 39-41: unmarshalField has returned r for the
\* field at path of the struct v
fieldDone(c, v, path, r) ==
    IF r.err # NoErr
    THEN [c EXCEPT !.data = SetAt(v, path, r.val), !.err = r.err,
                   !.stack = <<>>, !.done = TRUE]
    ELSE [c EXCEPT !.data = SetAt(v, path, r.val), !.stack = Advanced(c)]

\* unmarshalWithPrefix, lines 23-41: the body of the loop of the innermost
\* call f for its field fd, in environment e, on the struct v
loopBody(e, c, v, f, fd) ==
    IF fd.kind = "struct"
    THEN [c EXCEPT !.stack = Append(Advanced(c),
                                    Frame(fd.of, Append(f.path, fd.name),
                                          newPrefix(f.prefix, fd.tag)))]
    ELSE IF fd.tag = <<>> THEN [c EXCEPT !.stack = Advanced(c)]
    ELSE fieldDone(c, v, Append(f.path, fd.name),
                   unmarshalField(e, fd, FieldAt(v, Append(f.path, fd.name)),
                                  f.prefix, f.T))

\* unmarshalWithPrefix, lines 22-44: one step of the innermost call f, which
\* returns nil at the end of its loop
loopStep(e, c, v, f) ==
    IF f.i > Len(Types[f.T])
    THEN IF Len(c.stack) = 1 THEN [c EXCEPT !.stack = <<>>, !.done = TRUE]
         ELSE [c EXCEPT !.stack = Callers(c)]
    ELSE loopBody(e, c, v, f, Types[f.T][f.i])

\* the environments and the types of the structs of these calls
ConcEnvs ==
    {EmptyEnv,
     (PORT :> <<"7">>) @@ (P_PORT :> <<"7">>) @@ (D_R_PORT :> <<"x">>),
     (HOST :> <<"a">>) @@ (<<"P", "_", "N", "A", "M", "E">> :> <<"a">>) @@ (PORT :> <<"x">>),
     (NAME :> <<"a">>) @@ (MODE :> <<>>) @@ (HOST :> <<>>)}
ConcTypes == {"Config", "RequiredConfig", "App", "Service"}

ConcInit ==
    /\ env \in ConcEnvs
    /\ typ = "Config"
    /\ cfg = ZeroStruct(typ)
    /\ pre = cfg
    /\ err = NoErr
    /\ last = "Init"
    /\ trail = Idle
    /\ calls = 0
    /\ args = <<>>
    /\ ret = NoRet
    /\ recent = NoCalls
    /\ run \in [Goroutines -> UNION {{Started(T, ZeroStruct(T)), Started(T, Preset[T])} :
                                        T \in ConcTypes}]

\* one step of the Unmarshal call of goroutine g
Step(g) ==
    /\ ~run[g].done
    /\ run' = [run EXCEPT ![g] = loopStep(env, run[g], targetOf(run, g),
                                          run[g].stack[Len(run[g].stack)])]
    /\ UNCHANGED <<env, typ, cfg, pre, err, last, trail, calls, args, ret, recent>>

ConcNext == \E g \in Goroutines : Step(g)

ConcSpec == ConcInit /\ [][ConcNext]_vars

\* C30: of two Unmarshal calls that run at the same time on two structs, no
\* Set or Unset call running with them, each returns what it returns when it
\* runs alone in that environment, the error and every field of its struct,
\* in whatever order the steps of the two calls are taken.
C30_ConcurrentUnmarshal ==
    \A g \in DOMAIN run :
      run[g].done
        => /\ run[g].data = unmarshalWithPrefix(env, run[g].typ, run[g].start, <<>>).val
           /\ run[g].err = unmarshalWithPrefix(env, run[g].typ, run[g].start, <<>>).err

\* both calls have returned, one with an error and one without, each having
\* written to its struct
C30_Witness ==
    /\ DOMAIN run = Goroutines
    /\ run[1].done /\ run[2].done
    /\ run[1].err # NoErr /\ run[2].err = NoErr
    /\ run[1].data # run[1].start
    /\ run[2].data # run[2].start

\* both calls are under way, each inside a nested struct, each having
\* written to its struct
C30_UnderWayWitness ==
    /\ DOMAIN run = Goroutines
    /\ ~run[1].done /\ ~run[2].done
    /\ Len(run[1].stack) > 1 /\ Len(run[2].stack) > 1
    /\ run[1].data # run[1].start
    /\ run[2].data # run[2].start

=============================================================================
